---- MODULE Spec2Model ----
(***************************************************************************)
(* Serverless proxy in front of the music-generation provider (Paxsenix)   *)
(* and the storage provider (KIE): the request handlers of                 *)
(*   POST /api/ai-music/suno-music               (index.ts)                *)
(*   POST /api/ai-music/suno-music/wait          (wait.ts)                 *)
(*   POST /api/ai-music/suno-music/wait-upload   (wait-upload.ts)          *)
(*   POST /api/ai-music/cover-audio              (cover start handler)     *)
(*   POST /api/ai-music/cover-audio/callback     (callback handler)        *)
(* One request is handled per behaviour.  An action is one turn of the     *)
(* event loop: the code that runs between two awaits of the handler.  The  *)
(* providers are the environment: every awaited call returns one of a      *)
(* small set of HTTP answers, or rejects (network failure).                *)
(*                                                                         *)
(* JSON objects are records; a key that is absent in the JSON is absent    *)
(* from the record's DOMAIN.  null / undefined is the record Null.         *)
(* URLs and file names built by template literals are tuples of strings.   *)
(* Times are milliseconds.                                                 *)
(***************************************************************************)
EXTENDS Integers, Sequences, FiniteSets, TLC

\* ------------------------------------------------------------------ bounds
\* Largest number of records in a done job.
MaxRecords == 2

\* Time one awaited status call may take.  An overshoot of the sleep timer
\* is not modelled apart: between two evaluations of the loop condition the
\* elapsed time is (call time + sleep time), so an overshoot is the same as
\* a slower call.
Latencies == {0, 1000}

\* Values of the timeoutMs / pollIntervalMs query parameters the requests
\* of the handler specification carry (pollIntervalMs may also be absent).
TimeoutChoices == {2500, 3000, 4000}
IntervalChoices == {1000}

\* ------------------------------------------------------------ JSON helpers
Null == [null |-> TRUE]

Has(o, k) == k \in DOMAIN o

\* { ...a, ...b }: keys of b override keys of a.
Spread(a, b) == b @@ a

\* A thrown Error / a normally returned value.
Threw(msg) == [threw |-> TRUE, message |-> msg]
Returned(v) == [threw |-> FALSE, value |-> v]

\* --------------------------------------------------------------- _utils.ts
AUTHOR == "@Dafidxcode"
PAXSENIX_BASE_URL == "https://api.paxsenix.org"
DEFAULT_POLL_INTERVAL_MS == 5000
DEFAULT_TIMEOUT_MS == 300000

\* Variant of normalizeAuthor: creator is not taken out.
normalizeKeepCreator(payload) ==
    IF payload = Null THEN payload ELSE Spread([Author |-> AUTHOR], payload)

\* const { creator, ...rest } = payload; return { Author: AUTHOR, ...rest }
normalizeAuthor(payload) ==
    IF payload = Null THEN payload
    ELSE LET rest == [k \in DOMAIN payload \ {"creator"} |-> payload[k]]
         IN  Spread([Author |-> AUTHOR], rest)

\* readJsonBody: "" -> {}, unparsable text -> throws, else the parsed value.
readJsonBody(raw) ==
    CASE raw.kind = "empty"   -> Returned(<<>>)
      [] raw.kind = "garbage" -> Threw("Invalid JSON body")
      [] OTHER                -> Returned(raw.value)

getApiKey(e) ==
    IF e.PAXSENIX_API_KEY THEN Returned("pax-key") ELSE Threw("Missing env PAXSENIX_API_KEY")

getKieApiKey(e) ==
    IF e.KIE_API_KEY THEN Returned("kie-key") ELSE Threw("Missing env KIE_API_KEY")

\* ------------------------------------------------ query parameter parsing
\* A query value after Number(): finite or not (NaN / Infinity).  An absent
\* parameter is an absent key of the query record.
QNum(n) == [finite |-> TRUE, n |-> n]
QNaN == [finite |-> FALSE, n |-> 0]

\* A parameter given several times is an array of values.
QArr(items) == [array |-> TRUE, items |-> items]

\* Number(Array.isArray(raw) ? raw[0] : raw); Number(undefined) is NaN.
queryNumber(raw) ==
    IF Has(raw, "array")
    THEN IF Len(raw.items) > 0 THEN raw.items[1] ELSE QNaN
    ELSE raw

Min(a, b) == IF a < b THEN a ELSE b

\* Variant of parseTimeoutMs: a budget of zero is accepted as given.
parseTimeoutMsZeroOk(query) ==
    LET raw == IF Has(query, "timeoutMs") THEN query.timeoutMs
               ELSE IF Has(query, "timeout") THEN query.timeout ELSE Null
    IN  IF raw = Null THEN DEFAULT_TIMEOUT_MS
        ELSE IF ~queryNumber(raw).finite \/ queryNumber(raw).n < 0 THEN DEFAULT_TIMEOUT_MS
        ELSE Min(queryNumber(raw).n, 15 * 60 * 1000)

\* Variant of parseTimeoutMs: no hard cap.
parseTimeoutMsNoCap(query) ==
    LET raw == IF Has(query, "timeoutMs") THEN query.timeoutMs
               ELSE IF Has(query, "timeout") THEN query.timeout ELSE Null
    IN  IF raw = Null THEN DEFAULT_TIMEOUT_MS
        ELSE IF ~queryNumber(raw).finite \/ queryNumber(raw).n <= 0 THEN DEFAULT_TIMEOUT_MS
        ELSE queryNumber(raw).n

parseTimeoutMs(query) ==
    LET raw == IF Has(query, "timeoutMs") THEN query.timeoutMs
               ELSE IF Has(query, "timeout") THEN query.timeout ELSE Null
    IN  IF raw = Null THEN DEFAULT_TIMEOUT_MS
        ELSE LET n == queryNumber(raw)
             IN  IF ~n.finite \/ n.n <= 0 THEN DEFAULT_TIMEOUT_MS
                 ELSE Min(n.n, 15 * 60 * 1000)

\* Variants of parsePollIntervalMs: a value below 1000 is raised to 1000;
\* no ceiling.
parsePollIntervalMsFloor(query) ==
    LET raw == IF Has(query, "pollIntervalMs") THEN query.pollIntervalMs
               ELSE IF Has(query, "poll") THEN query.poll ELSE Null
    IN  IF raw = Null THEN DEFAULT_POLL_INTERVAL_MS
        ELSE IF ~queryNumber(raw).finite THEN DEFAULT_POLL_INTERVAL_MS
        ELSE IF queryNumber(raw).n < 1000 THEN 1000
        ELSE Min(queryNumber(raw).n, 30000)
parsePollIntervalMsNoCap(query) ==
    LET raw == IF Has(query, "pollIntervalMs") THEN query.pollIntervalMs
               ELSE IF Has(query, "poll") THEN query.poll ELSE Null
    IN  IF raw = Null THEN DEFAULT_POLL_INTERVAL_MS
        ELSE IF ~queryNumber(raw).finite \/ queryNumber(raw).n < 1000
             THEN DEFAULT_POLL_INTERVAL_MS
        ELSE queryNumber(raw).n

parsePollIntervalMs(query) ==
    LET raw == IF Has(query, "pollIntervalMs") THEN query.pollIntervalMs
               ELSE IF Has(query, "poll") THEN query.poll ELSE Null
    IN  IF raw = Null THEN DEFAULT_POLL_INTERVAL_MS
        ELSE LET n == queryNumber(raw)
             IN  IF ~n.finite \/ n.n < 1000 THEN DEFAULT_POLL_INTERVAL_MS
                 ELSE Min(n.n, 30000)

\* ------------------------------------------------------ request validation
\* A text field is [len, blank]: its length and whether trim() leaves "".
Text(len, blank) == [len |-> len, blank |-> blank]
EmptyText == Text(0, TRUE)

\* A string the schema checks with z.string().url(): its text and whether
\* it is a well-formed URL.
Url(text) == [text |-> text, wellFormed |-> TRUE]
NotUrl(text) == [text |-> text, wellFormed |-> FALSE]

\* A JSON scalar whose type the schema checks (z.number()).
JNum(n) == [type |-> "number", n |-> n]
JStr(text) == [type |-> "string", text |-> text]

Field(body, k, default) == IF Has(body, k) THEN body[k] ELSE default

\* kieUploadPath / kieFileName are strings whose value matters; trim() on
\* the strings the requests carry.
Trim(s) == IF s = " " THEN "" ELSE IF s = " song.mp3 " THEN "song.mp3" ELSE s

\* requestSchema of wait.ts / wait-upload.ts: the parsed data (defaults
\* applied) and the issues of superRefine.  withKie: the wait-upload schema.
schemaData(body, withKie) ==
    LET base == [customMode   |-> body.customMode,
                 instrumental |-> Field(body, "instrumental", FALSE),
                 title        |-> Field(body, "title", EmptyText),
                 style        |-> Field(body, "style", EmptyText),
                 prompt       |-> Field(body, "prompt", EmptyText),
                 model        |-> Field(body, "model", "V5"),
                 negativeTags |-> Field(body, "negativeTags", EmptyText)]
    IN  IF withKie
        THEN base @@ [kieUploadPath |-> Field(body, "kieUploadPath", "music/paxsenix"),
                      kieFileName   |-> Field(body, "kieFileName", "")]
        ELSE base

Models == {"V3_5", "V4", "V4_5", "V4_5PLUS", "V5"}

\* Variant of the emptiness test: the text is not trimmed first.
emptyUntrimmed(text) == text.len = 0

\* !v.prompt?.trim()
trimIsEmpty(text) == text.blank

\* Variant of the tier test: V4 is not in the small tier.
isV35Only(model) == model = "V3_5"

\* model === "V3_5" || model === "V4"
isV35orV4(model) == model \in {"V3_5", "V4"}

\* The issues of the z.object itself: customMode is required, a string
\* field that is present must be a string, model one of Models.
objectIssues(body) ==
    {m \in {"customMode: Required"} : ~Has(body, "customMode")}
    \cup {m \in {"title: Expected string"} : Has(body, "title") /\ ~Has(body.title, "len")}
    \cup {m \in {"model: Invalid enum value"} : Has(body, "model") /\ body.model \notin Models}

\* The issues superRefine adds.
refineIssues(body, withKie) ==
    LET v == schemaData(body, withKie)
        promptLimit == IF isV35orV4(v.model) THEN 3000 ELSE 5000
        styleLimit == IF isV35orV4(v.model) THEN 200 ELSE 1000
    IN  IF v.customMode = FALSE
        THEN {m \in {"prompt is required when customMode=false"} : trimIsEmpty(v.prompt)}
             \cup {m \in {"prompt max length is 400 when customMode=false"} : v.prompt.len > 400}
        ELSE {m \in {"title is required when customMode=true"} : trimIsEmpty(v.title)}
             \cup {m \in {"style is required when customMode=true"} : trimIsEmpty(v.style)}
             \cup {m \in {"prompt is required when customMode=true and instrumental=false"} :
                       v.instrumental = FALSE /\ trimIsEmpty(v.prompt)}
             \cup {m \in {"title max length is 80"} : v.title.len > 80}
             \cup {m \in {"prompt max length for model"} : v.prompt.len > promptLimit}
             \cup {m \in {"style max length for model"} : v.style.len > styleLimit}
             \cup {m \in {"kieUploadPath is required"} : withKie /\ Trim(v.kieUploadPath) = ""}

\* Variant of the schema: only one issue is reported.
schemaIssuesFirstOnly(body, withKie) ==
    LET all == IF objectIssues(body) # {} THEN objectIssues(body)
               ELSE refineIssues(body, withKie)
    IN  IF all = {} THEN {} ELSE {CHOOSE m \in all : TRUE}

\* Variant of the schema: superRefine is not run.
schemaIssuesObjectOnly(body, withKie) == objectIssues(body)

\* requestSchema.safeParse: superRefine runs only on an object that parsed
\* without issue.
schemaIssues(body, withKie) ==
    IF objectIssues(body) # {} THEN objectIssues(body)
    ELSE refineIssues(body, withKie)

\* Variant of the payload: the parsed data is sent in both modes.
payloadAsParsed(data) ==
    [k \in {"customMode", "instrumental", "title", "style", "prompt", "model",
             "negativeTags"} |-> data[k]]

\* The body POSTed to the generation provider.
payloadToUpstream(data) ==
    IF data.customMode
    THEN [k \in {"customMode", "instrumental", "title", "style", "prompt", "model",
                 "negativeTags"} |-> data[k]]
    ELSE [customMode |-> FALSE, prompt |-> data.prompt, instrumental |-> FALSE,
          title |-> EmptyText, style |-> EmptyText, model |-> "", negativeTags |-> EmptyText]

\* ------------------------------------------------- the providers' answers
\* What an awaited fetch() + resp.json().catch(() => null) yields: resp.ok,
\* resp.status and the decoded body (Null when the body does not decode).
Answer(httpStatus, body) ==
    [ok |-> httpStatus \in 200..299, status |-> httpStatus, json |-> body]

\* fetch() itself rejects on a network failure.
FetchFailed == Threw("fetch failed")

JobId == "job-1"
TaskUrl(host, id) == <<host, "/task/", id>>

\* Answers of the generation provider to the job-creation POST.
StartAnswers ==
    { Answer(200, [ok |-> TRUE, message |-> "Here is your job id and task url!",
                   jobId |-> JobId, task_url |-> TaskUrl("https://task.paxsenix.org", JobId),
                   creator |-> "PaxSenix"]),
      Answer(200, [ok |-> TRUE, jobId |-> JobId, creator |-> "PaxSenix"]),
      Answer(200, [ok |-> TRUE, jobId |-> "job-2", creator |-> "PaxSenix"]),
      Answer(200, [ok |-> FALSE, message |-> "rejected", creator |-> "PaxSenix"]),
      Answer(500, [ok |-> TRUE, jobId |-> JobId]),
      Answer(500, Null), Answer(200, Null) }

\* The records of a done job: the record at position i has its own audio
\* URL, or none.
PaxRecord(i, withUrl) ==
    IF withUrl THEN [id |-> i, audio_url |-> <<"https://cdn-0.paxsenix.org/file/", i, ".mp3">>]
    ELSE [id |-> i]

RecordLists ==
    UNION { { [i \in 1..n |-> PaxRecord(i, f[i])] : f \in [1..n -> BOOLEAN] } : n \in 0..MaxRecords }

\* Answers of the generation provider to a status GET.
PendingBody == [ok |-> FALSE, status |-> "pending", creator |-> "PaxSenix"]
ProcessingBody ==
    [ok |-> FALSE, status |-> "processing", progress |-> "Music generation in progress",
     creator |-> "PaxSenix"]
DoneBody(recs) ==
    [ok |-> TRUE, status |-> "done", records |-> recs, creator |-> "PaxSenix",
     jobId |-> "upstream-id", task_url |-> TaskUrl("https://elsewhere.example", "upstream-id")]

StatusAnswers ==
    { Answer(200, PendingBody), Answer(200, ProcessingBody),
      Answer(200, [ok |-> FALSE, status |-> "done", records |-> <<PaxRecord(1, TRUE)>>,
                   creator |-> "PaxSenix"]),
      Answer(200, [ok |-> TRUE, status |-> "done", creator |-> "PaxSenix"]),
      Answer(200, [status |-> "done", records |-> <<PaxRecord(1, TRUE)>>]),
      Answer(404, [ok |-> FALSE, message |-> "Task not found"]),
      Answer(500, Null), Answer(200, Null),
      Answer(200, [ok |-> TRUE, status |-> "done", records |-> <<>>, Author |-> "PaxSenix"]) }
    \cup { Answer(200, DoneBody(recs)) : recs \in RecordLists }

\* Answers of the storage provider to an upload POST with body `request`.
KieAnswers(request) ==
    { Answer(200, [success |-> TRUE, code |-> 200, msg |-> "ok",
                   data |-> [downloadUrl |-> <<"https://files.kie/", request.uploadPath,
                                               request.fileName>>,
                             fileName |-> request.fileName,
                             filePath |-> request.uploadPath,
                             fileSize |-> 3 * 1024 * 1024,
                             mimeType |-> "audio/mpeg"]]),
      Answer(500, [success |-> FALSE, code |-> 500, msg |-> "upload failed"]),
      Answer(200, Null) }

\* --------------------------------------------------------------- the state
VARIABLES
    req,            \* the inbound request: endpoint, method, query, raw body
    env,            \* process.env as read so far: variable name -> is it set
    pc,             \* where the handler is suspended: "recv", "launch", "poll",
                    \* "sleep", "upload", "cbupload", or "done" (response sent)
    now,            \* Date.now()
    timeoutMs, pollIntervalMs, data, jobId, taskUrl, startedAt, last,
                    \* the handler's locals of the same names (data: parsed.data)
    promises,       \* the upload call of each record: its request while in flight
    values,         \* the result array Promise.all fills
    response,       \* the response sent: [status, body], Null before
    paxCalls,       \* requests sent to the generation provider, in order
    kieCalls,       \* requests sent to the storage provider, in order
    uploadAnswer,   \* the answer each upload call received (Null: none yet)
    completed,      \* the upload calls that are over, in the order they ended
    launched,       \* the answer the job-creation POST received (Null: none)
    lastAnswer,     \* the answer the latest status GET received
    doneOkAt,       \* number of status GETs sent when an answer first decoded to
                    \* status "done" with ok true (0: not yet)
    doneNotOkAt,    \* the same for status "done" without ok true
    patt,           \* k: the k status answers so far are the first k of
                    \* pending, processing, done;  -1: they are not
    e2e,            \* the same for processing, processing, done
    slow,           \* some status call so far took time
    peer            \* another invocation of a handler in the same process,
                    \* suspended at an await: its own variables (Null: none)

locals == <<timeoutMs, pollIntervalMs, data, jobId, taskUrl, startedAt, last>>
uploadVars == <<promises, values, kieCalls, uploadAnswer, completed>>
pollObs == <<launched, lastAnswer, doneOkAt, doneNotOkAt, patt, e2e, slow>>
vars == <<req, env, pc, now, locals, uploadVars, response, paxCalls, pollObs, peer>>

\* ------------------------------------------------------------ the requests
WaitQueries ==
    { [timeoutMs |-> QNum(t), pollIntervalMs |-> QNum(i)] :
          t \in TimeoutChoices, i \in IntervalChoices }
    \cup { [timeoutMs |-> QNum(t)] : t \in TimeoutChoices }

Json(v) == [kind |-> "json", value |-> v]

SimplePrompt == [customMode |-> FALSE, prompt |-> Text(15, FALSE)]
CustomSong ==
    [customMode |-> TRUE, instrumental |-> TRUE, title |-> Text(3, FALSE),
     style |-> Text(20, FALSE), model |-> "V4"]

WaitBodies ==
    { Json(SimplePrompt), Json(CustomSong),
      Json([customMode |-> FALSE, prompt |-> Text(2, TRUE)]),
      Json([customMode |-> TRUE, title |-> Text(81, FALSE), style |-> EmptyText]),
      [kind |-> "empty"], [kind |-> "garbage"] }

WaitUploadBodies ==
    { Json(SimplePrompt), Json(CustomSong @@ [kieFileName |-> " song.mp3 "]),
      Json(CustomSong @@ [kieUploadPath |-> " "]),
      Json(SimplePrompt @@ [kieFileName |-> " "]),
      Json(SimplePrompt @@ [kieUploadPath |-> " "]),
      [kind |-> "empty"], [kind |-> "garbage"] }

Methods == {"POST", "OPTIONS", "GET"}

Requests ==
    { [endpoint |-> "wait", method |-> m, query |-> q, raw |-> b] :
          m \in Methods, q \in WaitQueries, b \in WaitBodies }
    \cup { [endpoint |-> "wait-upload", method |-> m, query |-> q, raw |-> b] :
          m \in Methods, q \in WaitQueries, b \in WaitUploadBodies }
    \cup { [endpoint |-> "generate", method |-> m, query |-> <<>>, raw |-> b] :
          m \in Methods, b \in WaitBodies }

Envelope(code, type, items) ==
    [code |-> code, msg |-> "All generated successfully.",
     data |-> [callbackType |-> type, task_id |-> "task-9", data |-> items]]

TrackA == [id |-> "t1", audio_url |-> Url("https://x/a.mp3"), title |-> "A"]
TrackB == [id |-> "t2", audio_url |-> Url("https://x/b.mp3")]

CallbackBodies ==
    { Json(Envelope(JNum(200), "complete", <<TrackA, TrackB>>)),
      Json(Envelope(JNum(200), "complete", <<[title |-> "no audio yet"], TrackB>>)),
      Json(Envelope(JNum(200), "complete", <<>>)),
      Json(Envelope(JNum(200), "text", <<TrackA>>)),
      Json(Envelope(JNum(200), "first", <<TrackA>>)),
      Json(Envelope(JNum(501), "complete", <<TrackA>>)),
      Json([code |-> JNum(200), data |-> [callbackType |-> "complete",
                                    data |-> <<[audio_url |-> Url("https://x/c.mp3")]>>]]),
      Json(Envelope(JStr("200"), "complete", <<TrackA>>)),
      Json(Envelope(JNum(200), "complete", <<[id |-> "t1", audio_url |-> NotUrl("a.mp3")]>>)),
      [kind |-> "empty"], [kind |-> "garbage"] }

CallbackRequests ==
    { [endpoint |-> "callback", method |-> m, query |-> <<>>, raw |-> b] :
          m \in Methods, b \in CallbackBodies }

CoverHeaders ==
    { [host |-> "melody.example"],
      [host |-> "internal"] @@ ("x-forwarded-proto" :> "http")
                            @@ ("x-forwarded-host" :> "melody.example") }

CoverSong ==
    [uploadUrl |-> Url("https://x/in.mp3"), customMode |-> TRUE, title |-> Text(3, FALSE),
     style |-> Text(20, FALSE)]

CoverBodies ==
    { Json(CoverSong),
      Json(CoverSong @@ [callBackUrl |-> Url("https://caller/cb")]),
      Json([uploadUrl |-> Url("https://x/in.mp3"), customMode |-> FALSE]),
      Json([uploadUrl |-> Url("https://x/in.mp3"), customMode |-> TRUE, title |-> Text(2, TRUE),
            style |-> Text(20, FALSE)]),
      Json([uploadUrl |-> Url("https://x/in.mp3"), customMode |-> TRUE, title |-> Text(3, FALSE)]),
      Json([uploadUrl |-> Url("https://x/in.mp3"), customMode |-> TRUE, title |-> Text(3, FALSE),
            style |-> Text(2, TRUE)]),
      Json([uploadUrl |-> NotUrl("in.mp3"), customMode |-> TRUE]),
      Json([uploadUrl |-> NotUrl("in.mp3"), customMode |-> FALSE]),
      [kind |-> "empty"], [kind |-> "garbage"] }

CoverRequests ==
    { [endpoint |-> "cover", method |-> m, query |-> <<>>, raw |-> b, headers |-> h] :
          m \in Methods, b \in CoverBodies, h \in CoverHeaders }

\* GET /api/task/:jobId: the jobId of the route is a string, or is missing,
\* or is empty, or is an array (given several times).
TaskQueries == { [jobId |-> JStr(JobId)], [jobId |-> JStr("")], [jobId |-> QArr(<<JobId>>)], <<>> }

TaskRequests ==
    { [endpoint |-> "task", method |-> m, query |-> q, raw |-> [kind |-> "empty"]] :
          m \in Methods, q \in TaskQueries }

Init ==
    /\ req \in Requests \cup CallbackRequests \cup CoverRequests \cup TaskRequests
    /\ env = <<>>
    /\ pc = "recv"
    /\ now = 0
    /\ timeoutMs = 0 /\ pollIntervalMs = 0 /\ data = Null /\ jobId = "" /\ taskUrl = <<>>
    /\ startedAt = 0 /\ last = Null
    /\ promises = <<>> /\ values = <<>> /\ kieCalls = <<>>
    /\ uploadAnswer = <<>> /\ completed = <<>> /\ launched = Null
    /\ response = Null
    /\ paxCalls = <<>>
    /\ lastAnswer = Null /\ doneOkAt = 0 /\ doneNotOkAt = 0 /\ patt = 0 /\ e2e = 0
    /\ slow = FALSE /\ peer = Null

\* ------------------------------------------------- pieces of the handlers
\* json(res, status, body): the response is sent and the handler returns.
Respond(status, body) ==
    /\ response' = [status |-> status, body |-> body]
    /\ pc' = "done"

\* Variant of the catch block: the handler returns without a response.
CatchSilently(e) == pc' = "done" /\ UNCHANGED response

\* catch (e) { return json(res, 500, normalizeAuthor({ok: false, message: e.message})) }
Catch(e) == Respond(500, normalizeAuthor([ok |-> FALSE, message |-> e.message]))

\* process.env.NAME is read: it is set or it is not.
ReadEnv(name, present) == env' = (name :> present) @@ env

StatusGets == Len(SelectSeq(paxCalls, LAMBDA c : c.method = "GET"))

\* Variants of the loop condition: the bound included, and a poll started
\* only when the sleep after it still ends within the budget.
withinBudgetInclusive(t, started, budget) == t - started <= budget
withinBudgetWithSleep(t, started, budget) == t - started + pollIntervalMs < budget
\* Variant: one more poll is allowed during the interval after the budget.
withinBudgetPlusInterval(t, started, budget) == t - started < budget + pollIntervalMs

\* while (Date.now() - startedAt < timeoutMs)
withinBudget(t, started, budget) == t - started < budget

\* Variants of the success test: the records must be there too; the
\* success flag is not looked at; a missing success flag counts as true.
isDoneWithRecords(statusJson) ==
    /\ Has(statusJson, "status") /\ statusJson.status = "done"
    /\ Has(statusJson, "ok") /\ statusJson.ok = TRUE
    /\ Has(statusJson, "records") /\ Len(statusJson.records) > 0
isDoneAnyFlag(statusJson) == Has(statusJson, "status") /\ statusJson.status = "done"
isDoneUnlessFalse(statusJson) ==
    /\ Has(statusJson, "status") /\ statusJson.status = "done"
    /\ Has(statusJson, "ok") => statusJson.ok = TRUE

\* statusJson?.status === "done" && statusJson?.ok === true
isDone(statusJson) ==
    /\ Has(statusJson, "status") /\ statusJson.status = "done"
    /\ Has(statusJson, "ok") /\ statusJson.ok = TRUE

\* Variant of the 408 body: the status is a fixed word.
timeoutBodyFixedStatus(lastSeen, id, url) ==
    normalizeAuthor(
        [ok |-> FALSE, status |-> "timeout",
         message |-> "Timeout waiting for music generation to finish",
         jobId |-> id, task_url |-> url, lastResponse |-> lastSeen])

\* The 408 body.
timeoutBody(lastSeen, id, url) ==
    normalizeAuthor(
        [ok |-> FALSE,
         status |-> IF Has(lastSeen, "status") THEN lastSeen.status ELSE "unknown",
         message |-> "Timeout waiting for music generation to finish",
         jobId |-> id, task_url |-> url, lastResponse |-> lastSeen])

\* The 502 body of a failed launch.
startFailedBody(startResp) ==
    normalizeAuthor([ok |-> FALSE, message |-> "Upstream start job failed",
                     status |-> startResp.status, upstream |-> startResp.json])

\* The 502 body of index.ts.
upstreamErrorBody(upstream) ==
    normalizeAuthor([ok |-> FALSE, message |-> "Upstream error",
                     status |-> upstream.status, upstream |-> upstream.json])

\* The loop condition, and what follows it: the next status GET is sent, or
\* the loop is left and the 408 is sent.
\* Variant of the loop: every iteration launches the job again and then
\* reads its status.
LoopTopRelaunch(t, started, lastSeen, id, url) ==
    IF withinBudget(t, started, timeoutMs)
    THEN /\ paxCalls' = paxCalls \o << [method |-> "POST",
                                        url |-> <<PAXSENIX_BASE_URL, "/ai-music/suno-music">>],
                                       [method |-> "GET", url |-> url] >>
         /\ pc' = "poll"
         /\ UNCHANGED response
    ELSE /\ Respond(408, timeoutBody(lastSeen, id, url))
         /\ UNCHANGED paxCalls

LoopTop(t, started, lastSeen, id, url) ==
    IF withinBudget(t, started, timeoutMs)
    THEN /\ paxCalls' = Append(paxCalls, [method |-> "GET", url |-> url])
         /\ pc' = "poll"
         /\ UNCHANGED response
    ELSE /\ Respond(408, timeoutBody(lastSeen, id, url))
         /\ UNCHANGED paxCalls

\* ------------------------------------------------------- re-hosting upload
\* bytesToMb, in hundredths of a megabyte: Math.round(bytes / 1024 / 1024 * 100).
bytesToMb(bytes) == (bytes * 100 + 524288) \div 1048576

\* The body kieUploadFromUrl POSTs to the storage provider.
kieUploadRequest(params) ==
    IF params.fileName # <<>>
    THEN [fileUrl |-> params.fileUrl, uploadPath |-> params.uploadPath,
          fileName |-> params.fileName]
    ELSE [fileUrl |-> params.fileUrl, uploadPath |-> params.uploadPath]

\* Variant of kieUploadFromUrl: resp.ok is not looked at.
kieUploadResultUnchecked(resp) == [ok |-> TRUE, result |-> resp.json]

\* What kieUploadFromUrl of wait-upload.ts returns for the provider's answer.
kieUploadResult(resp) ==
    IF ~resp.ok
    THEN [ok |-> FALSE, status |-> resp.status, upstream |-> resp.json]
    ELSE [ok |-> TRUE, result |-> resp.json]

\* up.result?.data: the keys of the upload answer's data that are present.
UploadData(body) == IF Has(body, "data") THEN body.data ELSE <<>>

\* The kie object of a successful entry; JSON.stringify drops the keys whose
\* value is undefined.
kieInfo(d) ==
    LET bytes == IF Has(d, "fileSize") THEN d.fileSize ELSE 0
        copied == [k \in DOMAIN d \cap {"downloadUrl", "mimeType", "fileName", "filePath",
                                        "uploadedAt"} |-> d[k]]
    IN  copied @@ [fileSizeBytes |-> bytes,
                   fileSizeMB |-> IF bytes # 0 THEN bytesToMb(bytes) ELSE 0]

\* Variant: a record without an audio URL falls back to an address built
\* from its id.
audioUrlOfFallback(r) ==
    IF Has(r, "audio_url") THEN r.audio_url
    ELSE <<"https://cdn-0.paxsenix.org/file/", r.id, ".bin">>

\* typeof r?.audio_url === "string" ? r.audio_url : ""
audioUrlOf(r) == IF Has(r, "audio_url") THEN r.audio_url ELSE <<>>

\* Variant: the record's position is appended to a supplied name too.
uploadFileNameAlwaysIndexed(d, id, idx) ==
    IF Trim(d.kieFileName) # "" THEN <<Trim(d.kieFileName), "-", idx + 1>>
    ELSE <<id, "-", idx + 1, ".mp3">>

\* Variant: the default name does not carry the record's position.
uploadFileNameNoIndex(d, id, idx) ==
    IF Trim(d.kieFileName) # "" THEN <<Trim(d.kieFileName)>> ELSE <<id, ".mp3">>

\* (parsed.data.kieFileName || "").trim() || `${jobId}-${idx + 1}.mp3`
uploadFileName(d, id, idx) ==
    IF Trim(d.kieFileName) # "" THEN <<Trim(d.kieFileName)>> ELSE <<id, "-", idx + 1, ".mp3">>

\* The map callback up to its first await: the promise it returns is
\* fulfilled at once (no audio URL), rejected at once (getKieApiKey throws),
\* or pending on the upload call it has sent.
uploadStart(r, idx, d, id, kiePresent) ==
    IF audioUrlOf(r) = <<>>
    THEN [state |-> "fulfilled",
          value |-> [ok |-> FALSE, message |-> "missing audio_url", recordIndex |-> idx]]
    ELSE IF getKieApiKey([KIE_API_KEY |-> kiePresent]).threw
    THEN [state |-> "rejected", reason |-> getKieApiKey([KIE_API_KEY |-> kiePresent])]
    ELSE [state |-> "pending",
          request |-> kieUploadRequest([fileUrl |-> audioUrlOf(r), uploadPath |-> d.kieUploadPath,
                                        fileName |-> uploadFileName(d, id, idx)])]

\* The map callback after the upload call returned `up`.
uploadEntry(r, idx, up) ==
    IF ~up.ok
    THEN [ok |-> FALSE, recordIndex |-> idx, uploadError |-> up]
    ELSE [ok |-> TRUE, recordIndex |-> idx, sourceAudioUrl |-> audioUrlOf(r),
          kie |-> kieInfo(UploadData(up.result))]

\* Promise.all: the promise at index i puts its value at index i of the
\* result array, whenever it is fulfilled.
Hole == [hole |-> TRUE]

\* Variant: a value goes to the first free place (the order of completion).
resolveElementNextFree(vals, i, v) ==
    [vals EXCEPT ![CHOOSE k \in 1..Len(vals) :
                       vals[k] = Hole /\ \A j \in 1..(k - 1) : vals[j] # Hole] = v]

resolveElement(vals, i, v) == [vals EXCEPT ![i] = v]
AllFulfilled(vals) == \A i \in 1..Len(vals) : vals[i] # Hole

\* The result array after the promises fulfilled at once are in.
RECURSIVE resolveSettled(_, _, _)
resolveSettled(vals, ps, i) ==
    IF i > Len(ps) THEN vals
    ELSE resolveSettled(IF ps[i].state = "fulfilled" THEN resolveElement(vals, i, ps[i].value)
                        ELSE vals, ps, i + 1)

Rejected(ps) == {i \in 1..Len(ps) : ps[i].state = "rejected"}
InFlight(ps) == {i \in 1..Len(ps) : ps[i].state = "pending"}

\* Array.isArray(statusJson?.records) ? statusJson.records : []
recordsOf(statusJson) == IF Has(statusJson, "records") THEN statusJson.records ELSE <<>>

\* Variant: the keys of the status body replace the launch's.
uploadedBodyStatusWins(statusJson, id, url, uploads) ==
    normalizeAuthor(Spread([jobId |-> id, task_url |-> url, kieUploads |-> uploads], statusJson))

\* The 200 body of wait-upload.
uploadedBody(statusJson, id, url, uploads) ==
    normalizeAuthor(Spread(statusJson, [jobId |-> id, task_url |-> url, kieUploads |-> uploads]))

\* ------------------------------------------------------ callback receiver
\* callbackSchema: every key is optional; code must be a number and an
\* item's audio_url a URL.
callbackItems(body) ==
    IF Has(body, "data") /\ Has(body.data, "data") THEN body.data.data ELSE <<>>

callbackSchemaIssues(body) ==
    {m \in {"code: Expected number"} : Has(body, "code") /\ body.code.type # "number"}
    \cup {m \in {"audio_url: Invalid url"} :
            \E i \in 1..Len(callbackItems(body)) :
                /\ Has(callbackItems(body)[i], "audio_url")
                /\ ~callbackItems(body)[i].audio_url.wellFormed}

\* What kieUploadFromUrl of the callback handler returns.
cbKieUploadResult(resp) == [ok |-> resp.ok, status |-> resp.status, upstream |-> resp.json]

\* Variant of the upload condition: the callback type is not looked at.
cbShouldUploadAnyType(payload) ==
    /\ Has(payload, "code") /\ payload.code = JNum(200)
    /\ Len(callbackItems(payload)) > 0

\* payload.code === 200 && callbackType === "complete" && items.length > 0
cbShouldUpload(payload) ==
    /\ Has(payload, "code") /\ payload.code = JNum(200)
    /\ Has(payload, "data") /\ Has(payload.data, "callbackType")
    /\ payload.data.callbackType = "complete"
    /\ Len(callbackItems(payload)) > 0

\* `${payload.data?.task_id ?? "task"}-${first.id ?? "track"}.mp3`
cbFileName(payload, first) ==
    << IF Has(payload, "data") /\ Has(payload.data, "task_id") THEN payload.data.task_id
       ELSE "task",
       "-", IF Has(first, "id") THEN first.id ELSE "track", ".mp3" >>

cbUploadParams(payload) ==
    LET first == callbackItems(payload)[1]
    IN  [fileUrl |-> first.audio_url.text, uploadPath |-> "music/cover-audio",
         fileName |-> cbFileName(payload, first)]

\* kieUploadedFirstTrack, from what the upload call returned.
cbUploaded(audioUrl, up) ==
    IF up.ok
    THEN LET d == UploadData(up.upstream)
             bytes == IF Has(d, "fileSize") THEN d.fileSize ELSE 0
         IN  [k \in DOMAIN d \cap {"downloadUrl", "mimeType", "fileName", "filePath",
                                   "uploadedAt"} |-> d[k]]
             @@ [sourceAudioUrl |-> audioUrl, fileSizeBytes |-> bytes,
                 fileSizeMB |-> IF bytes # 0 THEN bytesToMb(bytes) ELSE 0]
    ELSE [ok |-> FALSE, uploadError |-> up]

\* The 200 body of the callback receiver.
cbAckBody(payload, uploaded) ==
    normalizeAuthor([ok |-> TRUE, received |-> payload, kieUploadedFirstTrack |-> uploaded])

\* ------------------------------------------------------------ cover start
KIE_SUNO_UPLOAD_COVER_URL == "https://api.kie.ai/api/v1/generate/upload-cover"

CoverModels == {"V4", "V4_5", "V4_5PLUS", "V4_5ALL", "V5"}

\* requestSchema of the cover start handler: a plain z.object.
coverSchemaIssues(body) ==
    {m \in {"uploadUrl: Required"} : ~Has(body, "uploadUrl")}
    \cup {m \in {"uploadUrl: Invalid url"} : Has(body, "uploadUrl") /\ ~body.uploadUrl.wellFormed}
    \cup {m \in {"callBackUrl: Invalid url"} :
            Has(body, "callBackUrl") /\ ~body.callBackUrl.wellFormed}
    \cup {m \in {"customMode: Required"} : ~Has(body, "customMode")}
    \cup {m \in {"title: Expected string"} : Has(body, "title") /\ ~Has(body.title, "len")}
    \cup {m \in {"model: Invalid enum value"} : Has(body, "model") /\ body.model \notin CoverModels}

\* parsed.data: the keys of the schema that are present, and the defaults.
coverData(body) ==
    [k \in DOMAIN body \cap {"uploadUrl", "callBackUrl", "prompt", "customMode", "instrumental",
                              "model", "style", "title", "negativeTags", "vocalGender",
                              "styleWeight", "weirdnessConstraint", "audioWeight", "personaId"}
        |-> body[k]]
    @@ [prompt |-> EmptyText, instrumental |-> TRUE, model |-> "V5", style |-> EmptyText,
        title |-> EmptyText, negativeTags |-> EmptyText]

\* getBaseUrl(req)
getBaseUrl(headers) ==
    << IF Has(headers, "x-forwarded-proto") THEN headers["x-forwarded-proto"] ELSE "https",
       "://",
       IF Has(headers, "x-forwarded-host") THEN headers["x-forwarded-host"] ELSE headers.host >>

\* parsed.data.callBackUrl || `${getBaseUrl(req)}/api/ai-music/cover-audio/callback`
coverCallBackUrl(d, headers) ==
    IF Has(d, "callBackUrl") THEN <<d.callBackUrl.text>>
    ELSE getBaseUrl(headers) \o <<"/api/ai-music/cover-audio/callback">>

\* Variant of the custom-mode rule: the style is not looked at.
coverRuleTitleOnly(d) == d.customMode = TRUE /\ trimIsEmpty(d.title)

\* The custom-mode rule of the handler.
coverRuleBroken(d) == d.customMode = TRUE /\ (trimIsEmpty(d.style) \/ trimIsEmpty(d.title))

\* The body POSTed to the cover provider: { ...parsed.data, callBackUrl }.
coverUpstreamBody(d, callBackUrl) == Spread(d, [callBackUrl |-> callBackUrl])

\* The 200 body: { ok: true, provider: "kie", callBackUrl, ...data }.
coverStartedBody(callBackUrl, upstreamJson) ==
    normalizeAuthor(
        IF upstreamJson = Null THEN [ok |-> TRUE, provider |-> "kie", callBackUrl |-> callBackUrl]
        ELSE Spread([ok |-> TRUE, provider |-> "kie", callBackUrl |-> callBackUrl], upstreamJson))

\* Answers of the cover provider to the job-creation POST.
CoverAnswers ==
    { Answer(200, [code |-> 200, msg |-> "success", data |-> [taskId |-> "task-9"]]),
      Answer(200, [code |-> 401, msg |-> "unauthorized", ok |-> FALSE]),
      Answer(500, [code |-> 500, msg |-> "server error"]),
      Answer(200, Null) }

\* ------------------------------------------------ what the polls observed
\* A status answer that decodes to status "done" with ok true.
DoneWithSuccess(answer) ==
    /\ answer.json # Null
    /\ "status" \in DOMAIN answer.json /\ answer.json.status = "done"
    /\ "ok" \in DOMAIN answer.json /\ answer.json.ok

\* A status answer that decodes to status "done" with ok false or absent.
DoneWithoutSuccess(answer) ==
    /\ answer.json # Null
    /\ "status" \in DOMAIN answer.json /\ answer.json.status = "done"
    /\ ~("ok" \in DOMAIN answer.json /\ answer.json.ok)

\* A status answer that is non-2xx or whose body does not decode.
BadAnswer(answer) == answer.status \notin 200..299 \/ answer.json = Null

StatusString(answer) ==
    IF answer.json # Null /\ "status" \in DOMAIN answer.json THEN answer.json.status ELSE "none"

NextPatt(k, answer) ==
    CASE k = 0 /\ StatusString(answer) = "pending"    -> 1
      [] k = 1 /\ StatusString(answer) = "processing" -> 2
      [] k = 2 /\ DoneWithSuccess(answer)             -> 3
      [] OTHER                                        -> -1

NextE2E(k, answer) ==
    CASE k \in {0, 1} /\ StatusString(answer) = "processing" -> k + 1
      [] k = 2 /\ DoneWithSuccess(answer)                     -> 3
      [] OTHER                                                -> -1

\* ------------------------------ index.ts / wait.ts / wait-upload.ts handler
\* From the arrival of the request to the job-creation POST (or to an early
\* response).  index.ts reads no query parameter.
Receive ==
    /\ pc = "recv" /\ req.endpoint \in {"generate", "wait", "wait-upload"}
    /\ UNCHANGED <<req, peer, now, jobId, taskUrl, startedAt, last, uploadVars, pollObs>>
    /\ IF req.method = "OPTIONS"
       THEN /\ Respond(204, Null)
            /\ UNCHANGED <<env, timeoutMs, pollIntervalMs, data, paxCalls>>
       ELSE IF req.method # "POST"
       THEN /\ Respond(405, normalizeAuthor([ok |-> FALSE, message |-> "Method not allowed"]))
            /\ UNCHANGED <<env, timeoutMs, pollIntervalMs, data, paxCalls>>
       ELSE
         /\ IF req.endpoint = "generate" THEN UNCHANGED <<timeoutMs, pollIntervalMs>>
            ELSE /\ timeoutMs' = parseTimeoutMs(req.query)
                 /\ pollIntervalMs' = parsePollIntervalMs(req.query)
         /\ LET body == readJsonBody(req.raw)
                withKie == req.endpoint = "wait-upload"
            IN  IF body.threw
                THEN Catch(body) /\ UNCHANGED <<env, data, paxCalls>>
                ELSE IF schemaIssues(body.value, withKie) # {}
                THEN /\ Respond(400, normalizeAuthor(
                            [ok |-> FALSE, message |-> "Invalid request",
                             errors |-> schemaIssues(body.value, withKie)]))
                     /\ UNCHANGED <<env, data, paxCalls>>
                ELSE \E present \in BOOLEAN :
                       /\ data' = schemaData(body.value, withKie)
                       /\ ReadEnv("PAXSENIX_API_KEY", present)
                       /\ IF getApiKey([PAXSENIX_API_KEY |-> present]).threw
                          THEN /\ Catch(getApiKey([PAXSENIX_API_KEY |-> present]))
                               /\ UNCHANGED paxCalls
                          ELSE /\ paxCalls' = Append(paxCalls,
                                    [method |-> "POST",
                                     url |-> <<PAXSENIX_BASE_URL, "/ai-music/suno-music">>,
                                     body |-> payloadToUpstream(schemaData(body.value, withKie))])
                               /\ pc' = "launch"
                               /\ UNCHANGED response

\* The job-creation POST returns after d ms: 502, or the polling starts.
LaunchReturn ==
    /\ pc = "launch" /\ req.endpoint \in {"wait", "wait-upload"}
    /\ UNCHANGED <<req, peer, env, timeoutMs, pollIntervalMs, data, uploadVars, lastAnswer, doneOkAt,
                   doneNotOkAt, patt, e2e, slow>>
    /\ \E d \in Latencies :
         /\ now' = now + d
         /\ \/ /\ Catch(FetchFailed)
               /\ UNCHANGED <<jobId, taskUrl, startedAt, last, paxCalls, launched>>
            \/ \E startResp \in StartAnswers :
                 LET startJson == startResp.json
                 IN  IF ~startResp.ok \/ ~Has(startJson, "jobId")
                     THEN /\ Respond(502, startFailedBody(startResp))
                          /\ launched' = startResp
                          /\ UNCHANGED <<jobId, taskUrl, startedAt, last, paxCalls>>
                     ELSE LET id == startJson.jobId
                              url == IF Has(startJson, "task_url") THEN startJson.task_url
                                     ELSE TaskUrl(PAXSENIX_BASE_URL, id)
                          IN  /\ jobId' = id /\ taskUrl' = url
                              /\ launched' = startResp
                              /\ startedAt' = now' /\ last' = Null
                              /\ LoopTop(now', now', Null, id, url)

\* index.ts: the job-creation POST returns; its answer is passed on.
GenerateReturn ==
    /\ pc = "launch" /\ req.endpoint = "generate"
    /\ UNCHANGED <<req, peer, env, locals, uploadVars, paxCalls, lastAnswer, doneOkAt,
                   doneNotOkAt, patt, e2e, slow>>
    /\ \E d \in Latencies :
         /\ now' = now + d
         /\ \/ Catch(FetchFailed) /\ UNCHANGED launched
            \/ \E upstream \in StartAnswers :
                 /\ launched' = upstream
                 /\ IF ~upstream.ok
                    THEN Respond(502, upstreamErrorBody(upstream))
                    ELSE Respond(200, normalizeAuthor(upstream.json))

\* Step 3 of wait-upload: the upload of every record is started, and
\* Promise.all is awaited (or has settled already).
StartUploads(statusJson) ==
    LET records == recordsOf(statusJson)
        needsKey == \E i \in 1..Len(records) : audioUrlOf(records[i]) # <<>>
    IN  \E present \in BOOLEAN :
          /\ needsKey \/ present
          /\ IF needsKey THEN ReadEnv("KIE_API_KEY", present) ELSE UNCHANGED env
          /\ LET ps == [i \in 1..Len(records) |-> uploadStart(records[i], i - 1, data, jobId, present)]
                 vals == resolveSettled([i \in 1..Len(ps) |-> Hole], ps, 1)
                 sent == SelectSeq(ps, LAMBDA p : p.state = "pending")
             IN  /\ promises' = ps
                 /\ values' = vals
                 /\ kieCalls' = kieCalls \o [i \in 1..Len(sent) |-> sent[i].request]
                 /\ uploadAnswer' = [i \in 1..Len(ps) |-> Null]
                 /\ completed' = <<>>
                 /\ IF Rejected(ps) # {}
                    THEN Catch(ps[CHOOSE i \in Rejected(ps) : \A j \in Rejected(ps) : i <= j].reason)
                    ELSE IF AllFulfilled(vals)
                    THEN Respond(200, uploadedBody(statusJson, jobId, taskUrl, vals))
                    ELSE pc' = "upload" /\ UNCHANGED response

\* A status GET returns.
StatusReturn ==
    /\ pc = "poll"
    /\ UNCHANGED <<req, peer, now, timeoutMs, pollIntervalMs, data, jobId, taskUrl, startedAt,
                   paxCalls, slow, launched>>
    /\ \/ /\ Catch(FetchFailed)
          /\ UNCHANGED <<env, last, uploadVars, lastAnswer, doneOkAt, doneNotOkAt, patt, e2e>>
       \/ \E statusResp \in StatusAnswers :
            LET statusJson == statusResp.json
            IN  /\ last' = statusJson
                /\ lastAnswer' = statusResp
                /\ doneOkAt' = IF doneOkAt = 0 /\ DoneWithSuccess(statusResp)
                               THEN StatusGets ELSE doneOkAt
                /\ doneNotOkAt' = IF doneNotOkAt = 0 /\ DoneWithoutSuccess(statusResp)
                                  THEN StatusGets ELSE doneNotOkAt
                /\ patt' = NextPatt(patt, statusResp)
                /\ e2e' = NextE2E(e2e, statusResp)
                /\ IF isDone(statusJson)
                   THEN IF req.endpoint = "wait"
                        THEN /\ Respond(200, normalizeAuthor(statusJson))
                             /\ UNCHANGED <<env, uploadVars>>
                        ELSE StartUploads(statusJson)
                   ELSE /\ pc' = "sleep"
                        /\ UNCHANGED <<response, env, uploadVars>>

\* sleep(pollIntervalMs) is over.  d: the time the status call before it took.
SleepReturn ==
    /\ pc = "sleep"
    /\ UNCHANGED <<req, peer, env, timeoutMs, pollIntervalMs, data, jobId, taskUrl, startedAt, last,
                   uploadVars, launched, lastAnswer, doneOkAt, doneNotOkAt, patt, e2e>>
    /\ \E d \in Latencies :
         /\ now' = now + pollIntervalMs + d
         /\ slow' = (slow \/ d > 0)
         /\ LoopTop(now + pollIntervalMs + d, startedAt, last, jobId, taskUrl)

\* The upload call of one record returns, or fails.
UploadReturn ==
    /\ req.endpoint = "wait-upload"
    /\ UNCHANGED <<req, peer, env, now, locals, kieCalls, paxCalls, pollObs>>
    /\ \E i \in InFlight(promises) :
         \/ /\ promises' = [promises EXCEPT ![i] = [state |-> "rejected", reason |-> FetchFailed]]
            /\ uploadAnswer' = [uploadAnswer EXCEPT ![i] = FetchFailed]
            /\ completed' = Append(completed, i)
            /\ UNCHANGED values
            /\ IF pc = "upload" THEN Catch(FetchFailed) ELSE UNCHANGED <<pc, response>>
         \/ \E resp \in KieAnswers(promises[i].request) :
              LET entry == uploadEntry(recordsOf(last)[i], i - 1, kieUploadResult(resp))
              IN  /\ promises' = [promises EXCEPT ![i] = [state |-> "fulfilled", value |-> entry]]
                  /\ uploadAnswer' = [uploadAnswer EXCEPT ![i] = resp]
                  /\ completed' = Append(completed, i)
                  /\ IF pc = "upload"
                     THEN /\ values' = resolveElement(values, i, entry)
                          /\ IF AllFulfilled(resolveElement(values, i, entry))
                             THEN Respond(200, uploadedBody(last, jobId, taskUrl,
                                                            resolveElement(values, i, entry)))
                             ELSE UNCHANGED <<pc, response>>
                     ELSE UNCHANGED <<values, pc, response>>

\* ------------------------------------------------ callback receiver handler
\* From the arrival of the callback to the upload POST of the first track
\* (or to the response).
CbReceive ==
    /\ pc = "recv" /\ req.endpoint = "callback"
    /\ UNCHANGED <<req, peer, now, timeoutMs, pollIntervalMs, jobId, taskUrl, startedAt, last, values,
                   uploadAnswer, completed, paxCalls, pollObs>>
    /\ IF req.method = "OPTIONS"
       THEN Respond(204, Null) /\ UNCHANGED <<env, data, promises, kieCalls>>
       ELSE IF req.method # "POST"
       THEN /\ Respond(405, normalizeAuthor([ok |-> FALSE, message |-> "Method not allowed"]))
            /\ UNCHANGED <<env, data, promises, kieCalls>>
       ELSE
         LET body == readJsonBody(req.raw)
         IN  IF body.threw
             THEN Catch(body) /\ UNCHANGED <<env, data, promises, kieCalls>>
             ELSE IF callbackSchemaIssues(body.value) # {}
             THEN /\ Respond(400, normalizeAuthor(
                         [ok |-> FALSE, message |-> "Invalid callback payload",
                          errors |-> callbackSchemaIssues(body.value)]))
                  /\ UNCHANGED <<env, data, promises, kieCalls>>
             ELSE LET payload == body.value
                  IN  /\ data' = payload
                      /\ IF cbShouldUpload(payload) /\ Has(callbackItems(payload)[1], "audio_url")
                         THEN \E present \in BOOLEAN :
                                /\ ReadEnv("KIE_API_KEY", present)
                                /\ IF getKieApiKey([KIE_API_KEY |-> present]).threw
                                   THEN /\ Catch(getKieApiKey([KIE_API_KEY |-> present]))
                                        /\ UNCHANGED <<promises, kieCalls>>
                                   ELSE /\ promises' =
                                             << [state |-> "pending",
                                                 request |-> kieUploadRequest(cbUploadParams(payload))] >>
                                        /\ kieCalls' = Append(kieCalls,
                                                          kieUploadRequest(cbUploadParams(payload)))
                                        /\ pc' = "cbupload"
                                        /\ UNCHANGED response
                         ELSE /\ Respond(200, cbAckBody(payload, Null))
                              /\ UNCHANGED <<env, promises, kieCalls>>

\* The upload call of the first track returns, or fails.
CbUploadReturn ==
    /\ pc = "cbupload"
    /\ UNCHANGED <<req, peer, env, now, locals, values, kieCalls, paxCalls, pollObs>>
    /\ completed' = <<1>>
    /\ \/ /\ promises' = [promises EXCEPT ![1] = [state |-> "rejected", reason |-> FetchFailed]]
          /\ uploadAnswer' = <<FetchFailed>>
          /\ Catch(FetchFailed)
       \/ \E resp \in KieAnswers(promises[1].request) :
            LET up == cbKieUploadResult(resp)
            IN  /\ promises' = [promises EXCEPT ![1] = [state |-> "fulfilled", value |-> up]]
                /\ uploadAnswer' = <<resp>>
                /\ Respond(200, cbAckBody(data, cbUploaded(promises[1].request.fileUrl, up)))

\* ---------------------------------------------------- cover start handler
\* From the arrival of the request to the job-creation POST to the cover
\* provider (or to an early response).
CoverReceive ==
    /\ pc = "recv" /\ req.endpoint = "cover"
    /\ UNCHANGED <<req, peer, now, timeoutMs, pollIntervalMs, jobId, taskUrl, startedAt, last,
                   promises, values, uploadAnswer, completed, paxCalls, pollObs>>
    /\ IF req.method = "OPTIONS"
       THEN Respond(204, Null) /\ UNCHANGED <<env, data, kieCalls>>
       ELSE IF req.method # "POST"
       THEN /\ Respond(405, normalizeAuthor([ok |-> FALSE, message |-> "Method not allowed"]))
            /\ UNCHANGED <<env, data, kieCalls>>
       ELSE
         LET body == readJsonBody(req.raw)
         IN  IF body.threw
             THEN Catch(body) /\ UNCHANGED <<env, data, kieCalls>>
             ELSE IF coverSchemaIssues(body.value) # {}
             THEN /\ Respond(400, normalizeAuthor(
                         [ok |-> FALSE, message |-> "Invalid request",
                          errors |-> coverSchemaIssues(body.value)]))
                  /\ UNCHANGED <<env, data, kieCalls>>
             ELSE IF coverRuleBroken(coverData(body.value))
             THEN /\ Respond(400, normalizeAuthor(
                         [ok |-> FALSE, message |-> "style & title wajib saat customMode=true"]))
                  /\ UNCHANGED <<env, data, kieCalls>>
             ELSE \E present \in BOOLEAN :
                    LET d == coverData(body.value)
                        callBackUrl == coverCallBackUrl(d, req.headers)
                    IN  /\ data' = Spread(d, [callBackUrl |-> callBackUrl])
                        /\ ReadEnv("KIE_API_KEY", present)
                        /\ IF getKieApiKey([KIE_API_KEY |-> present]).threw
                           THEN /\ Catch(getKieApiKey([KIE_API_KEY |-> present]))
                                /\ UNCHANGED kieCalls
                           ELSE /\ kieCalls' = Append(kieCalls,
                                     [method |-> "POST", url |-> KIE_SUNO_UPLOAD_COVER_URL,
                                      body |-> coverUpstreamBody(d, callBackUrl)])
                                /\ pc' = "cover"
                                /\ UNCHANGED response

\* The job-creation POST to the cover provider returns, or fails.
CoverReturn ==
    /\ pc = "cover"
    /\ UNCHANGED <<req, peer, env, now, locals, uploadVars, paxCalls, lastAnswer, doneOkAt,
                   doneNotOkAt, patt, e2e, slow>>
    /\ \/ Catch(FetchFailed) /\ UNCHANGED launched
       \/ \E upstream \in CoverAnswers :
            /\ launched' = upstream
            /\ IF ~upstream.ok
               THEN Respond(502, upstreamErrorBody(upstream))
               ELSE Respond(200, coverStartedBody(data.callBackUrl, upstream.json))

\* ------------------------------------------------------ GET task handler
\* From the arrival of the request to the status GET (or to an early
\* response).
TaskReceive ==
    /\ pc = "recv" /\ req.endpoint = "task"
    /\ UNCHANGED <<req, peer, now, timeoutMs, pollIntervalMs, data, taskUrl, startedAt, last,
                   uploadVars, pollObs>>
    /\ IF req.method = "OPTIONS"
       THEN Respond(204, Null) /\ UNCHANGED <<env, jobId, paxCalls>>
       ELSE IF req.method # "GET"
       THEN /\ Respond(405, normalizeAuthor([ok |-> FALSE, message |-> "Method not allowed"]))
            /\ UNCHANGED <<env, jobId, paxCalls>>
       ELSE IF ~Has(req.query, "jobId") \/ ~Has(req.query.jobId, "text")
               \/ req.query.jobId.text = ""
       THEN /\ Respond(400, normalizeAuthor([ok |-> FALSE, message |-> "jobId is required"]))
            /\ UNCHANGED <<env, jobId, paxCalls>>
       ELSE \E present \in BOOLEAN :
              /\ jobId' = req.query.jobId.text
              /\ ReadEnv("PAXSENIX_API_KEY", present)
              /\ IF getApiKey([PAXSENIX_API_KEY |-> present]).threw
                 THEN /\ Catch(getApiKey([PAXSENIX_API_KEY |-> present]))
                      /\ UNCHANGED paxCalls
                 ELSE /\ paxCalls' = Append(paxCalls,
                           [method |-> "GET",
                            url |-> TaskUrl(PAXSENIX_BASE_URL, req.query.jobId.text)])
                      /\ pc' = "task"
                      /\ UNCHANGED response

\* The status GET returns, or fails.
TaskReturn ==
    /\ pc = "task"
    /\ UNCHANGED <<req, peer, env, now, locals, uploadVars, paxCalls, launched, doneOkAt,
                   doneNotOkAt, patt, e2e, slow>>
    /\ \/ Catch(FetchFailed) /\ UNCHANGED lastAnswer
       \/ \E upstream \in StatusAnswers :
            /\ lastAnswer' = upstream
            /\ IF ~upstream.ok
               THEN Respond(502, upstreamErrorBody(upstream))
               ELSE Respond(200, normalizeAuthor(upstream.json))

Next ==
    \/ TaskReceive
    \/ TaskReturn
    \/ CoverReceive
    \/ CoverReturn
    \/ CbReceive
    \/ CbUploadReturn
    \/ Receive
    \/ GenerateReturn
    \/ LaunchReturn
    \/ StatusReturn
    \/ SleepReturn
    \/ UploadReturn

Spec == Init /\ [][Next]_vars

\* ------------------------------------------- the query parameters, at large
\* The handlers of wait.ts / wait-upload.ts from the arrival of a request to
\* the first status GET, for every shape of the timeoutMs / pollIntervalMs
\* query parameters: absent, not a number, negative, zero, small, in range,
\* at and beyond the limits, huge, given several times, and the short
\* names timeout / poll.
QueryValues ==
    { QNaN, QNum(0 - 5), QNum(0), QNum(1), QNum(100), QNum(999), QNum(1000), QNum(2500),
      QNum(30000), QNum(30001), QNum(900000), QNum(900001), QNum(10000000),
      QArr(<<QNum(2000), QNum(7)>>), QArr(<<QNaN, QNum(2000)>>), QArr(<<>>) }

ClampQueries ==
    { t @@ i : t \in {<<>>} \cup { [timeoutMs |-> v] : v \in QueryValues }
                       \cup { [timeout |-> QNum(2500)],
                              [timeout |-> QNum(2500), timeoutMs |-> QNum(4000)] },
              i \in {<<>>} \cup { [pollIntervalMs |-> v] : v \in QueryValues }
                       \cup { [poll |-> QNum(2000)],
                              [poll |-> QNum(2000), pollIntervalMs |-> QNum(3000)] } }

ClampRequests ==
    { [endpoint |-> e, method |-> "POST", query |-> q, raw |-> Json(SimplePrompt)] :
          e \in {"wait", "wait-upload"}, q \in ClampQueries }

InitClamp ==
    /\ req \in ClampRequests
    /\ env = <<>>
    /\ pc = "recv"
    /\ now = 0
    /\ timeoutMs = 0 /\ pollIntervalMs = 0 /\ data = Null /\ jobId = "" /\ taskUrl = <<>>
    /\ startedAt = 0 /\ last = Null
    /\ promises = <<>> /\ values = <<>> /\ kieCalls = <<>>
    /\ uploadAnswer = <<>> /\ completed = <<>> /\ launched = Null
    /\ response = Null
    /\ paxCalls = <<>>
    /\ lastAnswer = Null /\ doneOkAt = 0 /\ doneNotOkAt = 0 /\ patt = 0 /\ e2e = 0
    /\ slow = FALSE /\ peer = Null

NextClamp ==
    \/ Receive
    \/ LaunchReturn

SpecClamp == InitClamp /\ [][NextClamp]_vars

\* A field that may be absent: the empty record, or the field with a value.
Optional(k, vals) == {<<>>} \cup { k :> v : v \in vals }

\* ------------------------------------------------------ normalizeAuthor alone
\* normalizeAuthor applied to a payload: null, or an object with any of the
\* keys creator, Author, ok, status, records.
NormalizePayloads ==
    { Null }
    \cup { c @@ a @@ o @@ st @@ r :
              c \in Optional("creator", {"X", "PaxSenix"}),
              a \in Optional("Author", {"Y"}),
              o \in Optional("ok", BOOLEAN),
              st \in Optional("status", {"done", "pending"}),
              r \in Optional("records", {<<>>, <<[id |-> 1, creator |-> "X"]>>}) }

InitNormalize ==
    /\ req \in { [endpoint |-> "normalize", payload |-> p] : p \in NormalizePayloads }
    /\ env = <<>>
    /\ pc = "recv"
    /\ now = 0
    /\ timeoutMs = 0 /\ pollIntervalMs = 0 /\ data = Null /\ jobId = "" /\ taskUrl = <<>>
    /\ startedAt = 0 /\ last = Null
    /\ promises = <<>> /\ values = <<>> /\ kieCalls = <<>>
    /\ uploadAnswer = <<>> /\ completed = <<>> /\ launched = Null
    /\ response = Null
    /\ paxCalls = <<>>
    /\ lastAnswer = Null /\ doneOkAt = 0 /\ doneNotOkAt = 0 /\ patt = 0 /\ e2e = 0
    /\ slow = FALSE /\ peer = Null

\* json(res, 200, normalizeAuthor(payload))
Normalize ==
    /\ pc = "recv" /\ req.endpoint = "normalize"
    /\ Respond(200, normalizeAuthor(req.payload))
    /\ UNCHANGED <<req, peer, env, now, locals, uploadVars, paxCalls, pollObs>>

NextNormalize == Normalize

SpecNormalize == InitNormalize /\ [][NextNormalize]_vars

\* ------------------------------------------- two invocations in one process
\* Two requests of /wait or /wait-upload handled by the same process.  An
\* invocation of a handler runs from one await to the next; while it is
\* suspended the other one may run.  req, res and every const and let of a
\* handler are declared inside the handler function, so each invocation has
\* its own; the modules declare no variable that a handler writes.  The
\* clock and process.env are the process's.  paxCalls and kieCalls are the
\* calls the running invocation has sent.
PairQuery == [timeoutMs |-> QNum(2500), pollIntervalMs |-> QNum(1000)]

PairRequests ==
    { [endpoint |-> e, method |-> "POST", query |-> PairQuery, raw |-> Json(SimplePrompt)] :
          e \in {"wait", "wait-upload"} }

\* The variables of an invocation that has just received request r.
newFrame(r) ==
    [req |-> r, pc |-> "recv", timeoutMs |-> 0, pollIntervalMs |-> 0, data |-> Null,
     jobId |-> "", taskUrl |-> <<>>, startedAt |-> 0, last |-> Null,
     promises |-> <<>>, values |-> <<>>, kieCalls |-> <<>>, uploadAnswer |-> <<>>,
     completed |-> <<>>, response |-> Null, paxCalls |-> <<>>, launched |-> Null,
     lastAnswer |-> Null, doneOkAt |-> 0, doneNotOkAt |-> 0, patt |-> 0, e2e |-> 0,
     slow |-> FALSE]

\* The variables of the running invocation.
handlerFrame ==
    [req |-> req, pc |-> pc, timeoutMs |-> timeoutMs, pollIntervalMs |-> pollIntervalMs,
     data |-> data, jobId |-> jobId, taskUrl |-> taskUrl, startedAt |-> startedAt,
     last |-> last, promises |-> promises, values |-> values, kieCalls |-> kieCalls,
     uploadAnswer |-> uploadAnswer, completed |-> completed, response |-> response,
     paxCalls |-> paxCalls, launched |-> launched, lastAnswer |-> lastAnswer,
     doneOkAt |-> doneOkAt, doneNotOkAt |-> doneNotOkAt, patt |-> patt, e2e |-> e2e,
     slow |-> slow]

\* Variant: taskUrl is a variable of the module, which every invocation
\* writes and reads.
resumedTaskUrlShared(frame, current) == current

\* const taskUrl of the handler: an invocation that resumes finds its own.
resumedTaskUrl(frame, current) == frame.taskUrl

InitPair ==
    /\ req \in PairRequests
    /\ \E r \in PairRequests : peer = newFrame(r)
    /\ env = <<>>
    /\ pc = "recv"
    /\ now = 0
    /\ timeoutMs = 0 /\ pollIntervalMs = 0 /\ data = Null /\ jobId = "" /\ taskUrl = <<>>
    /\ startedAt = 0 /\ last = Null
    /\ promises = <<>> /\ values = <<>> /\ kieCalls = <<>>
    /\ uploadAnswer = <<>> /\ completed = <<>> /\ launched = Null
    /\ response = Null
    /\ paxCalls = <<>>
    /\ lastAnswer = Null /\ doneOkAt = 0 /\ doneNotOkAt = 0 /\ patt = 0 /\ e2e = 0 /\ slow = FALSE

\* The running invocation is suspended at its await (or has returned) and
\* the other one runs.
Switch ==
    /\ peer # Null
    /\ peer' = handlerFrame
    /\ req' = peer.req /\ pc' = peer.pc
    /\ timeoutMs' = peer.timeoutMs /\ pollIntervalMs' = peer.pollIntervalMs
    /\ data' = peer.data /\ jobId' = peer.jobId
    /\ taskUrl' = resumedTaskUrl(peer, taskUrl)
    /\ startedAt' = peer.startedAt /\ last' = peer.last
    /\ promises' = peer.promises /\ values' = peer.values /\ kieCalls' = peer.kieCalls
    /\ uploadAnswer' = peer.uploadAnswer /\ completed' = peer.completed
    /\ response' = peer.response /\ paxCalls' = peer.paxCalls
    /\ launched' = peer.launched /\ lastAnswer' = peer.lastAnswer
    /\ doneOkAt' = peer.doneOkAt /\ doneNotOkAt' = peer.doneNotOkAt
    /\ patt' = peer.patt /\ e2e' = peer.e2e /\ slow' = peer.slow
    /\ UNCHANGED <<env, now>>

\* The answers of the generation provider in these runs: to a launch, one of
\* two acknowledgements (different jobs and task addresses); to a status
\* GET, processing or done with one record.
PairAnswers ==
    /\ launched \in { Null,
                       Answer(200, [ok |-> TRUE, message |-> "Here is your job id and task url!",
                                    jobId |-> JobId,
                                    task_url |-> TaskUrl("https://task.paxsenix.org", JobId),
                                    creator |-> "PaxSenix"]),
                       Answer(200, [ok |-> TRUE, jobId |-> "job-2", creator |-> "PaxSenix"]) }
    /\ lastAnswer \in { Null, Answer(200, ProcessingBody),
                         Answer(200, DoneBody(<<PaxRecord(1, TRUE)>>)) }

NextPair ==
    \/ Switch
    \/ Receive
    \/ LaunchReturn /\ PairAnswers'
    \/ StatusReturn /\ PairAnswers'
    \/ SleepReturn
    \/ UploadReturn

SpecPair == InitPair /\ [][NextPair]_vars

\* ------------------------------------------------ the request body, at large
\* The handlers of index.ts / wait.ts / wait-upload.ts from the arrival of a
\* request to the job-creation POST, for bodies that combine, for every
\* field, its absence, values at and beyond each limit of the schema, and
\* values of the wrong type.

PromptValues ==
    { Text(2, TRUE), Text(15, FALSE), Text(400, FALSE), Text(401, FALSE), Text(401, TRUE),
      Text(3000, FALSE), Text(3001, FALSE), Text(5000, FALSE), Text(5001, FALSE) }
TitleValues == { Text(1, TRUE), Text(80, FALSE), Text(81, FALSE), JNum(5) }
StyleValues ==
    { Text(20, FALSE), Text(200, FALSE), Text(201, FALSE), Text(1000, FALSE), Text(1001, FALSE) }
ModelValues == { "V3_5", "V4", "V4_5PLUS", "V9" }

\* The body is put together field by field; /wait-upload bodies may carry a
\* blank kieUploadPath.
InitValidate ==
    /\ \/ \E u \in Optional("uploadUrl", {Url("https://x/in.mp3"), NotUrl("in.mp3")}),
             cb \in Optional("callBackUrl", {Url("https://caller/cb"), NotUrl("cb")}),
             c \in Optional("customMode", BOOLEAN),
             t \in Optional("title", TitleValues),
             st \in Optional("style", {Text(2, TRUE), Text(20, FALSE)}),
             m \in Optional("model", {"V4", "V3_5"}) :
             req = [endpoint |-> "cover", method |-> "POST", query |-> <<>>,
                    raw |-> Json(u @@ cb @@ c @@ t @@ st @@ m),
                    headers |-> [host |-> "melody.example"]]
       \/ \E e \in {"generate", "wait", "wait-upload"},
          c \in Optional("customMode", BOOLEAN),
          p \in Optional("prompt", PromptValues),
          t \in Optional("title", TitleValues),
          st \in Optional("style", StyleValues),
          m \in Optional("model", ModelValues),
          i \in Optional("instrumental", BOOLEAN),
          n \in Optional("negativeTags", {Text(5, FALSE)}),
          k \in Optional("kieUploadPath", {" "}) :
          /\ e # "wait-upload" => k = <<>>
          /\ c = <<>> => (t = <<>> /\ st = <<>> /\ m = <<>> /\ i = <<>> /\ n = <<>>)
          /\ req = [endpoint |-> e, method |-> "POST", query |-> <<>>,
                    raw |-> Json(c @@ p @@ t @@ st @@ m @@ i @@ n @@ k)]
    /\ env = <<>>
    /\ pc = "recv"
    /\ now = 0
    /\ timeoutMs = 0 /\ pollIntervalMs = 0 /\ data = Null /\ jobId = "" /\ taskUrl = <<>>
    /\ startedAt = 0 /\ last = Null
    /\ promises = <<>> /\ values = <<>> /\ kieCalls = <<>>
    /\ uploadAnswer = <<>> /\ completed = <<>> /\ launched = Null
    /\ response = Null
    /\ paxCalls = <<>>
    /\ lastAnswer = Null /\ doneOkAt = 0 /\ doneNotOkAt = 0 /\ patt = 0 /\ e2e = 0
    /\ slow = FALSE /\ peer = Null

NextValidate ==
    \/ Receive
    \/ CoverReceive

SpecValidate == InitValidate /\ [][NextValidate]_vars

\* ----------------------------------------------- every awaited call returns
\* /wait and /wait-upload when every call the handler awaits returns (an
\* answer, or a rejection): readJsonBody, the fetches, sleep.
InitLive == Init /\ req.endpoint \in {"wait", "wait-upload"}

NextLive ==
    \/ Receive
    \/ LaunchReturn
    \/ StatusReturn
    \/ SleepReturn
    \/ UploadReturn

SpecLive ==
    /\ InitLive /\ [][NextLive]_vars
    /\ WF_vars(Receive) /\ WF_vars(LaunchReturn) /\ WF_vars(StatusReturn)
    /\ WF_vars(SleepReturn) /\ WF_vars(UploadReturn)

\* ------------------------------------------------------------ the test page
\* The page keeps every field of its forms as state (strings, switches and
\* selects), validates the form when a button is pressed and, if the form is
\* valid, sends the request that the server handlers then receive.

\* paxFormSchema: the fields are all there and typed; its superRefine.
paxFormIssues(v) ==
    LET promptLimit == IF v.model \in {"V3_5", "V4"} THEN 3000 ELSE 5000
        styleLimit == IF v.model \in {"V3_5", "V4"} THEN 200 ELSE 1000
    IN  IF v.customMode = FALSE
        THEN {m \in {"prompt wajib saat customMode=false"} : v.prompt.blank}
             \cup {m \in {"prompt max 400 karakter saat customMode=false"} : v.prompt.len > 400}
        ELSE {m \in {"title wajib saat customMode=true"} : v.title.blank}
             \cup {m \in {"style wajib saat customMode=true"} : v.style.blank}
             \cup {m \in {"prompt wajib saat customMode=true dan instrumental=false"} :
                       v.instrumental = FALSE /\ v.prompt.blank}
             \cup {m \in {"title max 80 karakter"} : v.title.len > 80}
             \cup {m \in {"prompt max untuk model"} : v.prompt.len > promptLimit}
             \cup {m \in {"style max untuk model"} : v.style.len > styleLimit}

\* coverStartSchema, and the rule handleCoverStart adds to it.
coverStartIssues(v) ==
    {m \in {"uploadUrl: Invalid url"} : ~v.uploadUrl.wellFormed}
    \cup {m \in {"style/title wajib"} : v.customMode /\ (v.style.blank \/ v.title.blank)}

\* The values typed into the text fields.
FormTexts == { Text(0, TRUE), Text(2, TRUE), Text(15, FALSE), Text(80, FALSE), Text(81, FALSE),
               Text(200, FALSE), Text(201, FALSE), Text(400, FALSE), Text(401, FALSE) }

\* The page's query string of /wait and /wait-upload.
PageQuery == [timeoutMs |-> QNum(300000), pollIntervalMs |-> QNum(5000)]

InitClient ==
    /\ \/ \E u \in {Url("https://x/in.mp3"), NotUrl("")},
             c \in BOOLEAN, i \in BOOLEAN, m \in CoverModels,
             t \in {Text(0, TRUE), Text(2, TRUE), Text(11, FALSE)},
             st \in {Text(0, TRUE), Text(2, TRUE), Text(11, FALSE)} :
             req = [endpoint |-> "cover", method |-> "POST", query |-> <<>>,
                    headers |-> [host |-> "melody.example"],
                    raw |-> Json([uploadUrl |-> u, customMode |-> c, instrumental |-> i,
                                  model |-> m, style |-> st, title |-> t,
                                  prompt |-> EmptyText, negativeTags |-> EmptyText])]
       \/ \E e \in {"generate", "wait", "wait-upload"},
             c \in BOOLEAN, i \in BOOLEAN, m \in Models,
             t \in {Text(0, TRUE), Text(80, FALSE), Text(81, FALSE)},
             st \in {Text(2, TRUE), Text(200, FALSE), Text(201, FALSE)},
             p \in FormTexts,
             k \in {<<>>, [kieUploadPath |-> "music/paxsenix", kieFileName |-> ""],
                     [kieUploadPath |-> "", kieFileName |-> "song.mp3"],
                     [kieUploadPath |-> " ", kieFileName |-> ""]} :
             /\ (e = "wait-upload") <=> (k # <<>>)
             /\ req = [endpoint |-> e, method |-> "POST",
                       query |-> IF e = "generate" THEN <<>> ELSE PageQuery,
                       raw |-> Json([customMode |-> c, instrumental |-> i, title |-> t,
                                     style |-> st, prompt |-> p, model |-> m,
                                     negativeTags |-> EmptyText] @@ k)]
    /\ env = <<>>
    /\ pc = "form"
    /\ now = 0
    /\ timeoutMs = 0 /\ pollIntervalMs = 0 /\ data = Null /\ jobId = "" /\ taskUrl = <<>>
    /\ startedAt = 0 /\ last = Null
    /\ promises = <<>> /\ values = <<>> /\ kieCalls = <<>>
    /\ uploadAnswer = <<>> /\ completed = <<>> /\ launched = Null
    /\ response = Null
    /\ paxCalls = <<>>
    /\ lastAnswer = Null /\ doneOkAt = 0 /\ doneNotOkAt = 0 /\ patt = 0 /\ e2e = 0
    /\ slow = FALSE /\ peer = Null

\* A button of the page is pressed: handlePaxGenerate, handlePaxWait,
\* handlePaxWaitUpload (the kie fields are added to the validated payload
\* unchecked) or handleCoverStart.  "toast": the form is refused and nothing
\* is sent.
ClientSubmit ==
    /\ pc = "form"
    /\ pc' = IF (IF req.endpoint = "cover" THEN coverStartIssues(req.raw.value)
                 ELSE paxFormIssues(req.raw.value)) = {}
             THEN "recv" ELSE "toast"
    /\ UNCHANGED <<req, peer, env, now, locals, uploadVars, response, paxCalls, pollObs>>

NextClient ==
    \/ ClientSubmit
    \/ Receive
    \/ CoverReceive

SpecClient == InitClient /\ [][NextClient]_vars

\* ================================================================ properties
Sent == response # Null
IsWait == req.endpoint = "wait"
IsWaitUpload == req.endpoint = "wait-upload"
Answered(status) == Sent /\ response.status = status

\* The body is `json` normalized: no creator, Author added unless json has
\* one, every other key of json kept, the keys of `extra` set to extra's
\* values, and no key besides.
NormalizedFrom(body, json, extra) ==
    /\ DOMAIN body = ((DOMAIN json \cup DOMAIN extra) \ {"creator"}) \cup {"Author"}
    /\ "Author" \notin DOMAIN json => body.Author = "@Dafidxcode"
    /\ \A k \in DOMAIN extra : body[k] = extra[k]
    /\ \A k \in DOMAIN json \ (DOMAIN extra \cup {"creator"}) : body[k] = json[k]

CeilDiv(a, b) == (a + b - 1) \div b

\* --------------------------------------------------------------------- C1
\* C1 as stated: once a status poll has decoded to status "done" with ok
\* true, a response of /wait or /wait-upload is 200 with exactly that
\* decoded body, normalized, and no further status GET has been sent.
C1_AsStated ==
    (doneOkAt > 0 /\ Sent) =>
        /\ response.status = 200
        /\ NormalizedFrom(response.body, lastAnswer.json, <<>>)
        /\ StatusGets = doneOkAt

\* C1 amended: the first status poll that decodes to done with ok true ends
\* the polling in both endpoints (no status GET after it, the loop is left);
\* /wait answers at once, 200 with that body normalized; a 200 of
\* /wait-upload is that body normalized and extended with kieUploads and with
\* the launch's jobId and task_url, which replace keys of the same name.
C1_StopsAtFirstDone ==
    doneOkAt > 0 =>
        /\ StatusGets = doneOkAt
        /\ pc \in {"upload", "done"}
        /\ DoneWithSuccess(lastAnswer)
        /\ IsWait => /\ Answered(200)
                     /\ NormalizedFrom(response.body, lastAnswer.json, <<>>)
        /\ (IsWaitUpload /\ Answered(200)) =>
               NormalizedFrom(response.body, lastAnswer.json,
                              [jobId |-> jobId, task_url |-> taskUrl,
                               kieUploads |-> response.body.kieUploads])

C1_Witness ==
    /\ IsWaitUpload /\ Answered(200) /\ doneOkAt = 2
    /\ Len(response.body.kieUploads) = 2
    /\ response.body.jobId # lastAnswer.json.jobId

\* --------------------------------------------------------------------- C2
\* C2 as stated: a status answer that is non-2xx or does not decode ends the
\* request with 502; the loop never sleeps (to poll again) after it.
C2_BadStatusIs502 ==
    (lastAnswer # Null /\ BadAnswer(lastAnswer)) =>
        /\ pc # "sleep"
        /\ Sent => response.status = 502

\* --------------------------------------------------------------------- C3
\* C3: a 408 is sent only when no poll has seen done with ok true, after at
\* least one poll; its body carries the jobId and the task_url of the launch
\* (the address the polls went to), lastResponse = the decoded body of the
\* latest poll, and status = that body's status, "unknown" when it has none.
LaunchTaskUrl ==
    IF "task_url" \in DOMAIN launched.json THEN launched.json.task_url
    ELSE <<"https://api.paxsenix.org", "/task/", launched.json.jobId>>

C3_TimeoutBody ==
    Answered(408) =>
        /\ doneOkAt = 0 /\ StatusGets >= 1
        /\ now - startedAt >= timeoutMs
        /\ response.body.ok = FALSE
        /\ response.body.jobId = launched.json.jobId
        /\ response.body.task_url = LaunchTaskUrl
        /\ \A i \in 1..Len(paxCalls) :
               paxCalls[i].method = "GET" => paxCalls[i].url = response.body.task_url
        /\ response.body.lastResponse = lastAnswer.json
        /\ response.body.status =
               IF lastAnswer.json # Null /\ "status" \in DOMAIN lastAnswer.json
               THEN lastAnswer.json.status ELSE "unknown"

C3_Witness ==
    /\ Answered(408) /\ StatusGets = 3
    /\ lastAnswer.json = Null /\ response.body.status = "unknown"
    /\ "task_url" \notin DOMAIN launched.json

\* --------------------------------------------------------------------- C4
\* C4 as stated: a 408 comes after exactly floor(B / I) status polls.
C4_FloorPolls == Answered(408) => StatusGets = timeoutMs \div pollIntervalMs

\* C4 amended: a 408 comes after at least one and at most ceil(B / I) status
\* polls, and after exactly ceil(B / I) when no status call took time: one
\* more than floor(B / I) whenever I does not divide B.
C4_CeilPolls ==
    Answered(408) =>
        /\ StatusGets >= 1
        /\ StatusGets <= CeilDiv(timeoutMs, pollIntervalMs)
        /\ ~slow => StatusGets = CeilDiv(timeoutMs, pollIntervalMs)

C4_Witness ==
    /\ Answered(408) /\ ~slow
    /\ timeoutMs = 2500 /\ pollIntervalMs = 1000 /\ StatusGets = 3

\* --------------------------------------------------------------------- C5
\* C5 as stated: in /wait with B >= 3 * I, while the status answers are
\* pending, processing, done in this order, the request does not time out
\* before the third poll, and the third answer ends it 200 after 3 polls.
C5_ThreePolls ==
    (IsWait /\ launched # Null /\ timeoutMs >= 3 * pollIntervalMs) =>
        /\ patt \in {1, 2} => ~Answered(408)
        /\ patt = 3 => Answered(200) /\ StatusGets = 3

\* C5 amended: in /wait with B >= 3 * I and the answers pending, processing,
\* done, the done answer of the third poll ends the request 200 (its body
\* normalized) after exactly 3 polls, and the request times out before the
\* third poll only if status calls took time and the elapsed time reached B
\* (never when the calls take no time).
C5_ThreePollsUnlessSlow ==
    (IsWait /\ launched # Null /\ timeoutMs >= 3 * pollIntervalMs) =>
        /\ (patt \in {1, 2} /\ Answered(408)) => (slow /\ now - startedAt >= timeoutMs)
        /\ patt = 3 => /\ Answered(200) /\ StatusGets = 3
                       /\ NormalizedFrom(response.body, lastAnswer.json, <<>>)

C5_Witness ==
    /\ IsWait /\ timeoutMs >= 3 * pollIntervalMs /\ patt = 3 /\ Answered(200)
    /\ StatusGets = 3 /\ slow

\* ------------------------------------------------------------------ C6, C7
\* The records of the done job and the upload results of a 200 of
\* /wait-upload.
DoneRecords ==
    IF "records" \in DOMAIN lastAnswer.json THEN lastAnswer.json.records ELSE <<>>
KieUploads == response.body.kieUploads

\* The upload call of record i was answered by the storage provider.
UploadAnswered(i) == uploadAnswer[i] # Null /\ "status" \in DOMAIN uploadAnswer[i]

C7_InputOrder ==
    (IsWaitUpload /\ Answered(200)) =>
        /\ Len(KieUploads) = Len(DoneRecords)
        /\ \A i \in 1..Len(KieUploads) :
              /\ KieUploads[i].recordIndex = i - 1
              /\ IF "audio_url" \in DOMAIN DoneRecords[i]
                 THEN IF KieUploads[i].ok
                      THEN KieUploads[i].sourceAudioUrl = DoneRecords[i].audio_url
                      ELSE "uploadError" \in DOMAIN KieUploads[i]
                 ELSE /\ KieUploads[i].ok = FALSE
                      /\ "message" \in DOMAIN KieUploads[i]
                      /\ KieUploads[i].message = "missing audio_url"

C7_Witness ==
    /\ IsWaitUpload /\ Answered(200) /\ completed = <<2, 1>>
    /\ KieUploads[1].ok /\ KieUploads[2].ok

\* --------------------------------------------------------------------- C8
\* C8 as stated: no response of /wait-upload is sent while an upload call of
\* the request is still in flight.
C8_JoinBeforeResponse == (IsWaitUpload /\ Sent) => InFlight(promises) = {}

\* --------------------------------------------------------------------- C9
\* C9: in /wait-upload a POST goes to the storage provider only after a
\* status poll of the request decoded to done with ok true; every such POST
\* is for the audio URL of a record of that job, no two for the same record;
\* none is sent on the 204, 405, 400, 502 and 408 paths nor on a 500 before
\* the first poll.
C9_UploadGated ==
    IsWaitUpload =>
        /\ kieCalls # <<>> => doneOkAt > 0
        /\ (Sent /\ response.status \in {204, 405, 400, 502, 408}) => kieCalls = <<>>
        /\ (Answered(500) /\ StatusGets = 0) => kieCalls = <<>>
        /\ \A i \in 1..Len(kieCalls) :
              /\ \E r \in 1..Len(DoneRecords) :
                    /\ "audio_url" \in DOMAIN DoneRecords[r]
                    /\ kieCalls[i].fileUrl = DoneRecords[r].audio_url
              /\ \A j \in 1..Len(kieCalls) : i # j => kieCalls[i].fileUrl # kieCalls[j].fileUrl

C9_Witness ==
    /\ IsWaitUpload /\ Sent /\ Len(kieCalls) = 2 /\ doneOkAt = 2 /\ StatusGets = 2

\* -------------------------------------------------------------------- C10
\* C10 as stated: every POST to the callback endpoint is answered 200, and
\* the only other answer to a POST is 400.
C10_AlwaysAcknowledged ==
    (req.endpoint = "callback" /\ req.method = "POST" /\ Sent) => response.status \in {200, 400}

\* -------------------------------------------------------------------- C11
IsCallback == req.endpoint = "callback"

\* The envelope a callback POST carries (the empty object when the body is
\* empty or is not JSON) and its result items.
EnvelopeOf == IF req.raw.kind = "json" THEN req.raw.value ELSE <<>>
ItemsOf ==
    IF "data" \in DOMAIN EnvelopeOf /\ "data" \in DOMAIN EnvelopeOf.data
    THEN EnvelopeOf.data.data ELSE <<>>

\* code == 200, callbackType == "complete" and at least one result item.
CompleteEnvelope ==
    /\ "code" \in DOMAIN EnvelopeOf /\ EnvelopeOf.code = [type |-> "number", n |-> 200]
    /\ "data" \in DOMAIN EnvelopeOf /\ "callbackType" \in DOMAIN EnvelopeOf.data
    /\ EnvelopeOf.data.callbackType = "complete"
    /\ Len(ItemsOf) >= 1

\* The envelope passes the schema: code is a number, every audio_url a URL.
WellFormedEnvelope ==
    /\ "code" \in DOMAIN EnvelopeOf => EnvelopeOf.code.type = "number"
    /\ \A i \in 1..Len(ItemsOf) :
           "audio_url" \in DOMAIN ItemsOf[i] => ItemsOf[i].audio_url.wellFormed

\* C11 as stated: a callback POST that has been answered made exactly one
\* upload call if its envelope has code 200, callbackType "complete" and at
\* least one item, and none otherwise.
C11_AsStated ==
    (IsCallback /\ req.method = "POST" /\ Sent) =>
        Len(kieCalls) = IF CompleteEnvelope THEN 1 ELSE 0

\* C11 amended: the callback receiver makes at most one upload call; it makes
\* one exactly when the request is a POST whose envelope passes the schema,
\* has code 200, callbackType "complete", a first item that carries an
\* audio_url, and the storage credential is set; the call is for the first
\* item's audio URL with upload path music/cover-audio, never for another
\* item (also when the first item has no audio_url).
C11_OneUploadForFirst ==
    (IsCallback /\ pc # "recv") =>
        /\ Len(kieCalls) <= 1
        /\ Len(kieCalls) = 1 <=>
              /\ req.method = "POST"
              /\ WellFormedEnvelope /\ CompleteEnvelope
              /\ "audio_url" \in DOMAIN ItemsOf[1]
              /\ "KIE_API_KEY" \in DOMAIN env /\ env.KIE_API_KEY
        /\ \A i \in 1..Len(kieCalls) :
              /\ kieCalls[i].fileUrl = ItemsOf[1].audio_url.text
              /\ kieCalls[i].uploadPath = "music/cover-audio"

C11_Witness ==
    /\ IsCallback /\ Answered(200) /\ Len(ItemsOf) = 2
    /\ Len(kieCalls) = 1 /\ kieCalls[1].fileUrl = "https://x/a.mp3"

\* -------------------------------------------------------------------- C12
IsGenerate == req.endpoint = "generate"

\* The job-creation POST was answered 2xx with a decoded body that has a jobId.
LaunchAccepted == launched.ok /\ "jobId" \in DOMAIN launched.json

\* C12 as stated: in /generate, /wait and /wait-upload, once the job-creation
\* POST has been answered, the request goes on (no 502) if the answer is 2xx
\* and carries a jobId, and is answered 502 with the upstream status and
\* body otherwise; a 200 of /generate always carries a jobId.
C12_LaunchNeedsJobId ==
    (launched # Null /\ pc # "launch") =>
        /\ LaunchAccepted => ~Answered(502)
        /\ ~LaunchAccepted =>
              /\ Answered(502)
              /\ response.body.status = launched.status
              /\ response.body.upstream = launched.json
        /\ (IsGenerate /\ Answered(200)) => "jobId" \in DOMAIN response.body

\* -------------------------------------------------------------------- C13
\* C13 as stated: when a credential the request read is not set, the request
\* has been answered 500 with the configuration error, and it has made no
\* call to either provider (no job-creation POST, no status GET, no upload).
C13_MissingCredentialFirst ==
    \A name \in DOMAIN env :
        ~env[name] =>
            /\ Answered(500)
            /\ response.body.message =
                   IF name = "KIE_API_KEY" THEN "Missing env KIE_API_KEY"
                   ELSE "Missing env PAXSENIX_API_KEY"
            /\ paxCalls = <<>> /\ kieCalls = <<>>

\* -------------------------------------------------------------------- C14
\* What the caller supplied for a query parameter known under the names
\* `long` and `short`: given or not; when given, the first value if given
\* several times; numeric (a finite number) or not; its number.
Supplied(long, short) ==
    LET q == req.query
        raw == IF long \in DOMAIN q THEN q[long] ELSE q[short]
        one == IF "array" \in DOMAIN raw
               THEN IF raw.items = <<>> THEN [finite |-> FALSE, n |-> 0] ELSE raw.items[1]
               ELSE raw
    IN  IF long \notin DOMAIN q /\ short \notin DOMAIN q
        THEN [given |-> FALSE, numeric |-> FALSE, n |-> 0]
        ELSE [given |-> TRUE, numeric |-> one.finite, n |-> one.n]

SuppliedTimeout == Supplied("timeoutMs", "timeout")
SuppliedInterval == Supplied("pollIntervalMs", "poll")

\* The handler of /wait or /wait-upload has read the query parameters.
QueryRead == (IsWait \/ IsWaitUpload) /\ req.method = "POST" /\ pc # "recv"

\* C14: the budget the handler runs with is 300000 when the timeout
\* parameter is absent, not a number, zero or negative, 900000 when it
\* exceeds 900000, and the supplied value otherwise.
C14_TimeoutClamp ==
    QueryRead =>
        timeoutMs =
            IF ~SuppliedTimeout.given \/ ~SuppliedTimeout.numeric \/ SuppliedTimeout.n <= 0
            THEN 300000
            ELSE IF SuppliedTimeout.n > 900000 THEN 900000
            ELSE SuppliedTimeout.n

C14_Witness ==
    /\ QueryRead /\ pc = "poll"
    /\ "timeoutMs" \in DOMAIN req.query
    /\ req.query.timeoutMs = [finite |-> TRUE, n |-> 10000000]
    /\ timeoutMs = 900000

\* -------------------------------------------------------------------- C15
\* C15 as stated: a numeric pollIntervalMs below 1000 gives the interval 1000.
C15_FloorClamp ==
    (QueryRead /\ SuppliedInterval.numeric /\ SuppliedInterval.n < 1000) =>
        pollIntervalMs = 1000

\* C15 amended: a numeric pollIntervalMs below 1000 is not raised to 1000 but
\* replaced by the default, 5000; the interval is never below 1000.
C15_BelowFloorIsDefault ==
    QueryRead =>
        /\ pollIntervalMs >= 1000
        /\ (SuppliedInterval.numeric /\ SuppliedInterval.n < 1000) => pollIntervalMs = 5000

C15_Witness ==
    /\ QueryRead /\ pc = "poll"
    /\ "pollIntervalMs" \in DOMAIN req.query
    /\ req.query.pollIntervalMs = [finite |-> TRUE, n |-> 100]
    /\ pollIntervalMs = 5000

\* -------------------------------------------------------------------- C16
\* C16: whatever the timeoutMs and pollIntervalMs parameters are, a request
\* with a valid body is not answered because of them (with the generation
\* credential set, the job-creation POST is sent; without it the answer is
\* the configuration error), and the budget and the interval the handler
\* runs with satisfy 0 < timeout <= 900000 and 1000 <= interval <= 30000.
C16_QueryNeverFails ==
    QueryRead =>
        /\ 0 < timeoutMs /\ timeoutMs <= 900000
        /\ 1000 <= pollIntervalMs /\ pollIntervalMs <= 30000
        /\ IF env.PAXSENIX_API_KEY
           THEN Len(paxCalls) >= 1 /\ paxCalls[1].method = "POST"
           ELSE Answered(500) /\ response.body.message = "Missing env PAXSENIX_API_KEY"
        /\ Sent => response.status \in {500, 502}

C16_Witness ==
    /\ QueryRead /\ pc = "poll"
    /\ "timeoutMs" \in DOMAIN req.query /\ "array" \in DOMAIN req.query.timeoutMs
    /\ "pollIntervalMs" \in DOMAIN req.query
    /\ req.query.pollIntervalMs = [finite |-> TRUE, n |-> 30001]
    /\ timeoutMs = 2000 /\ pollIntervalMs = 30000

\* -------------------------------------------------------------------- C17
\* The body of a generation request that is JSON, its fields, and whether
\* the handler has validated it: validation failed if and only if the
\* answer is 400.
BodyOf == IF req.raw.kind = "json" THEN req.raw.value ELSE <<>>
Given(k) == k \in DOMAIN BodyOf
IsText(k) == Given(k) /\ "len" \in DOMAIN BodyOf[k]
LenOf(k) == IF IsText(k) THEN BodyOf[k].len ELSE 0
NonBlank(k) == IsText(k) /\ ~BodyOf[k].blank
Validated ==
    /\ req.endpoint \in {"generate", "wait", "wait-upload"}
    /\ req.method = "POST" /\ req.raw.kind = "json" /\ pc # "recv"
ValidationPassed == ~Answered(400)

\* Every field that is present has the type the schema declares for it.
WellTyped ==
    /\ Given("title") => "len" \in DOMAIN BodyOf.title
    /\ Given("model") => BodyOf.model \in {"V3_5", "V4", "V4_5", "V4_5PLUS", "V5"}

NonCustom == Given("customMode") /\ BodyOf.customMode = FALSE
Custom == Given("customMode") /\ BodyOf.customMode = TRUE

\* C17 as stated: with customMode=false validation passes if and only if the
\* prompt is non-empty and at most 400 characters, whatever the other fields.
C17_AsStated ==
    (Validated /\ NonCustom) =>
        (ValidationPassed <=> (LenOf("prompt") > 0 /\ LenOf("prompt") <= 400))

\* C17 amended: with customMode=false and every other field absent or of its
\* declared type, validation passes if and only if the prompt is non-empty
\* after trimming and at most 400 characters (untrimmed), whatever the values
\* of the other fields (kieUploadPath included); a field of the wrong type
\* (a model outside the enumeration, a title that is no string) fails it.
C17_PromptOnly ==
    (Validated /\ NonCustom) =>
        /\ WellTyped => (ValidationPassed <=> (NonBlank("prompt") /\ LenOf("prompt") <= 400))
        /\ ~WellTyped => ~ValidationPassed

C17_Witness ==
    /\ Validated /\ NonCustom /\ pc = "launch" /\ IsWaitUpload
    /\ LenOf("prompt") = 400 /\ LenOf("title") = 81 /\ LenOf("style") = 1001
    /\ Given("model") /\ BodyOf.model = "V3_5"
    /\ Given("instrumental") /\ BodyOf.instrumental
    /\ Given("kieUploadPath")

\* -------------------------------------------------------------------- C18
\* The model the limits are taken for (V5 when none is given), and the
\* limits: 200 / 3000 for V3_5 and V4, 1000 / 5000 for every other model.
ModelOf == IF Given("model") THEN BodyOf.model ELSE "V5"
SmallTier == ModelOf = "V3_5" \/ ModelOf = "V4"
WithinLimits ==
    /\ LenOf("style") <= (IF SmallTier THEN 200 ELSE 1000)
    /\ LenOf("prompt") <= (IF SmallTier THEN 3000 ELSE 5000)
KiePathBlank == Given("kieUploadPath") /\ BodyOf.kieUploadPath \in {"", " "}
WithVocals == ~Given("instrumental") \/ BodyOf.instrumental = FALSE

\* C18 as stated: with customMode=true validation passes if and only if the
\* title is non-empty and at most 80 characters, the style is non-empty, the
\* prompt is non-empty when instrumental is false, and style and prompt are
\* within the limits of the model's tier.
C18_AsStated ==
    (Validated /\ Custom) =>
        (ValidationPassed <=>
            /\ LenOf("title") > 0 /\ LenOf("title") <= 80
            /\ LenOf("style") > 0
            /\ WithVocals => LenOf("prompt") > 0
            /\ WithinLimits)

\* C18 amended: with customMode=true and every field absent or of its
\* declared type, validation passes if and only if title and style are
\* non-empty after trimming, the title is at most 80 characters, the prompt
\* is non-empty after trimming when instrumental is false or absent, style
\* and prompt are within the limits of the model's tier, and, in
\* /wait-upload, kieUploadPath is not blank; a field of the wrong type fails
\* validation.
C18_CustomRules ==
    (Validated /\ Custom) =>
        /\ WellTyped =>
              (ValidationPassed <=>
                  /\ NonBlank("title") /\ LenOf("title") <= 80
                  /\ NonBlank("style")
                  /\ WithVocals => NonBlank("prompt")
                  /\ WithinLimits
                  /\ IsWaitUpload => ~KiePathBlank)
        /\ ~WellTyped => ~ValidationPassed

C18_Witness ==
    /\ Validated /\ Custom /\ pc = "launch" /\ IsWait
    /\ LenOf("title") = 80 /\ LenOf("style") = 200 /\ LenOf("prompt") = 3000
    /\ Given("model") /\ BodyOf.model = "V4"
    /\ ~Given("instrumental")

\* -------------------------------------------------------------------- C19
IsCover == req.endpoint = "cover"

\* The handler of an endpoint with a schema has validated a JSON body.
SchemaChecked == req.method = "POST" /\ req.raw.kind = "json" /\ pc # "recv"

\* A text field that is absent (its default is "") or blank.
TextBlank(k) == ~Given(k) \/ (IsText(k) /\ BodyOf[k].blank)

\* The rules on the type and shape of the fields that the body violates.
TypeRulesBroken ==
    {m \in {"customMode: Required"} : ~Given("customMode")}
    \cup {m \in {"title: Expected string"} : Given("title") /\ ~IsText("title")}
    \cup {m \in {"model: Invalid enum value"} :
            /\ Given("model")
            /\ BodyOf.model \notin {"V4", "V4_5", "V4_5PLUS", "V5"}
            /\ BodyOf.model # (IF IsCover THEN "V4_5ALL" ELSE "V3_5")}
    \cup {m \in {"uploadUrl: Required"} : IsCover /\ ~Given("uploadUrl")}
    \cup {m \in {"uploadUrl: Invalid url"} :
            IsCover /\ Given("uploadUrl") /\ ~BodyOf.uploadUrl.wellFormed}
    \cup {m \in {"callBackUrl: Invalid url"} :
            IsCover /\ Given("callBackUrl") /\ ~BodyOf.callBackUrl.wellFormed}

\* The mode-dependent rules that the body violates.
BusinessRulesBroken ==
    IF ~Given("customMode") THEN {}
    ELSE IF IsCover
    THEN {m \in {"style & title wajib saat customMode=true"} :
              BodyOf.customMode /\ (TextBlank("style") \/ TextBlank("title"))}
    ELSE IF ~BodyOf.customMode
    THEN {m \in {"prompt is required when customMode=false"} : TextBlank("prompt")}
         \cup {m \in {"prompt max length is 400 when customMode=false"} : LenOf("prompt") > 400}
    ELSE {m \in {"title is required when customMode=true"} : TextBlank("title")}
         \cup {m \in {"style is required when customMode=true"} : TextBlank("style")}
         \cup {m \in {"prompt is required when customMode=true and instrumental=false"} :
                   WithVocals /\ TextBlank("prompt")}
         \cup {m \in {"title max length is 80"} : LenOf("title") > 80}
         \cup {m \in {"prompt max length for model"} :
                   LenOf("prompt") > (IF SmallTier THEN 3000 ELSE 5000)}
         \cup {m \in {"style max length for model"} :
                   LenOf("style") > (IF SmallTier THEN 200 ELSE 1000)}
         \cup {m \in {"kieUploadPath is required"} : IsWaitUpload /\ KiePathBlank}

\* The violations a 400 body lists: its errors, or else its message.
Listed ==
    IF "errors" \in DOMAIN response.body THEN response.body.errors ELSE {response.body.message}

\* C19 as stated: an input that violates at least one rule is answered 400,
\* the body lists every rule it violates, and no upstream call is made.
C19_AsStated ==
    SchemaChecked =>
        /\ Answered(400) <=> (TypeRulesBroken \cup BusinessRulesBroken) # {}
        /\ Answered(400) =>
              /\ (TypeRulesBroken \cup BusinessRulesBroken) \subseteq Listed
              /\ paxCalls = <<>> /\ kieCalls = <<>>

\* C19 amended: an input is answered 400 if and only if it violates a rule,
\* and then no upstream call is made; the body lists every violated type
\* rule, or, when there is none, every violated mode-dependent rule: the
\* mode-dependent rules are not looked at when a type rule is violated.
C19_StagedList ==
    SchemaChecked =>
        /\ Answered(400) <=> (TypeRulesBroken \cup BusinessRulesBroken) # {}
        /\ Answered(400) =>
              /\ Listed = IF TypeRulesBroken # {} THEN TypeRulesBroken ELSE BusinessRulesBroken
              /\ paxCalls = <<>> /\ kieCalls = <<>>

C19_Witness ==
    /\ SchemaChecked /\ IsWaitUpload /\ Answered(400)
    /\ Cardinality(Listed) = 4 /\ "kieUploadPath is required" \in Listed

\* -------------------------------------------------------------------- C20
\* C20: in /generate, /wait and /wait-upload, the body of the job-creation
\* POST of a request with customMode=false carries customMode=false and the
\* prompt as validated; title, style, model and negativeTags are empty and
\* instrumental is false, whatever the caller supplied for them.
C20_NonCustomReduced ==
    (Validated /\ NonCustom /\ paxCalls # <<>>) =>
        /\ paxCalls[1].method = "POST"
        /\ paxCalls[1].body =
              [customMode |-> FALSE, prompt |-> BodyOf.prompt, instrumental |-> FALSE,
               title |-> [len |-> 0, blank |-> TRUE], style |-> [len |-> 0, blank |-> TRUE],
               model |-> "", negativeTags |-> [len |-> 0, blank |-> TRUE]]

C20_Witness ==
    /\ Validated /\ NonCustom /\ IsGenerate /\ pc = "launch"
    /\ LenOf("title") = 80 /\ LenOf("style") = 200 /\ Given("negativeTags")
    /\ Given("model") /\ BodyOf.model = "V4"
    /\ Given("instrumental") /\ BodyOf.instrumental
    /\ paxCalls[1].body.model = "" /\ paxCalls[1].body.instrumental = FALSE

\* -------------------------------------------------------------------- C21
\* C21 as stated: every response that has a body (every one but the 204 of
\* OPTIONS) has an object as body whose Author is "@Dafidxcode".
C21_AuthorEverywhere ==
    (Sent /\ response.status # 204) =>
        /\ response.body # Null
        /\ "Author" \in DOMAIN response.body
        /\ response.body.Author = "@Dafidxcode"

\* -------------------------------------------------------------------- C22
\* The upstream payload a response embeds, if any: upstream of a 502,
\* lastResponse of a 408.
Embedded ==
    IF response.status = 502 THEN response.body.upstream
    ELSE IF response.status = 408 THEN response.body.lastResponse
    ELSE <<>>

\* C22 as stated: no response body has a field named creator, at top level
\* or inside the upstream payload it embeds.
C22_NoCreatorAnywhere ==
    (Sent /\ response.status # 204) =>
        /\ "creator" \notin DOMAIN response.body
        /\ "creator" \notin DOMAIN Embedded

\* -------------------------------------------------------------------- C23
\* C23: for every object payload, normalizeAuthor(payload) has no creator
\* key, has the Author key (with the system's value unless the payload has
\* an Author of its own), has every other key of the payload with its value
\* unchanged, and has no key besides.
C23_PureProjection ==
    (req.endpoint = "normalize" /\ Sent /\ req.payload # Null) =>
        /\ "creator" \notin DOMAIN response.body
        /\ "Author" \in DOMAIN response.body
        /\ "Author" \notin DOMAIN req.payload => response.body.Author = "@Dafidxcode"
        /\ DOMAIN response.body = (DOMAIN req.payload \ {"creator"}) \cup {"Author"}
        /\ \A k \in DOMAIN req.payload \ {"creator"} : response.body[k] = req.payload[k]

C23_Witness ==
    /\ req.endpoint = "normalize" /\ Sent
    /\ req.payload = [creator |-> "X", ok |-> TRUE]
    /\ response.body = [Author |-> "@Dafidxcode", ok |-> TRUE]

\* -------------------------------------------------------------------- C24
\* C24: in /wait-upload, when the launch returned a job id and the status
\* polls saw processing, processing, done (ok true), a response is 200 unless
\* an upload call failed without an answer, and a 200 body has status "done",
\* the launch's job id as jobId, the polled address as task_url (whatever
\* the status body carries under these keys), one kieUploads entry per
\* record, and ok true in the entry of every record whose upload the storage
\* provider answered 2xx.
C24_EndToEnd ==
    (IsWaitUpload /\ e2e = 3) =>
        /\ StatusGets = 3
        /\ (Sent /\ Rejected(promises) = {}) => Answered(200)
        /\ Answered(200) =>
              /\ response.body.status = "done"
              /\ response.body.jobId = launched.json.jobId
              /\ \A i \in 1..Len(paxCalls) :
                    paxCalls[i].method = "GET" => response.body.task_url = paxCalls[i].url
              /\ Len(KieUploads) = Len(DoneRecords)
              /\ \A i \in 1..Len(KieUploads) :
                    (UploadAnswered(i) /\ uploadAnswer[i].status \in 200..299) =>
                        KieUploads[i].ok = TRUE

C24_Witness ==
    /\ IsWaitUpload /\ e2e = 3 /\ Answered(200)
    /\ Len(KieUploads) = 2 /\ KieUploads[1].ok /\ KieUploads[2].ok
    /\ response.body.status = "done" /\ response.body.jobId = JobId
    /\ lastAnswer.json.jobId # JobId /\ lastAnswer.json.task_url # response.body.task_url

\* -------------------------------------------------------------------- C25
IsTask == req.endpoint = "task"

\* C25 as stated: a GET of /task/{jobId} sends at most one request upstream,
\* a status GET; without a job id it is answered 400 and nothing is sent;
\* when the upstream answer is non-2xx or does not decode the response is
\* 502, and otherwise it is 200 with the upstream body normalized.
C25_OneShotRead ==
    (IsTask /\ req.method = "GET" /\ Sent) =>
        /\ Len(paxCalls) <= 1
        /\ \A i \in 1..Len(paxCalls) : paxCalls[i].method = "GET"
        /\ ~Has(req.query, "jobId") => (Answered(400) /\ paxCalls = <<>>)
        /\ lastAnswer # Null =>
              /\ Len(paxCalls) = 1
              /\ IF BadAnswer(lastAnswer)
                 THEN Answered(502)
                 ELSE /\ Answered(200)
                      /\ NormalizedFrom(response.body, lastAnswer.json, <<>>)

\* -------------------------------------------------------------------- C26
\* The callback endpoint of this system, as the caller reaches it.
OwnCallbackUrls ==
    { <<proto, "://", "melody.example", "/api/ai-music/cover-audio/callback">> :
          proto \in {"http", "https"} }

\* C26: a cover start request with customMode true and a title or style that
\* is absent, empty or blank, or with a malformed uploadUrl, is answered 400
\* and no POST goes to the cover provider; a request that violates no rule
\* (the storage credential being configured) sends exactly one POST to the
\* cover provider, whose callBackUrl is the caller's if one was supplied and
\* this system's callback endpoint otherwise; the handler sends nothing
\* else: no status GET, no upload.
C26_CoverStart ==
    (IsCover /\ SchemaChecked) =>
        /\ ( \/ Given("uploadUrl") /\ ~BodyOf.uploadUrl.wellFormed
             \/ /\ Given("customMode") /\ BodyOf.customMode = TRUE
                /\ (TextBlank("style") \/ TextBlank("title")) )
              => (Answered(400) /\ kieCalls = <<>>)
        /\ paxCalls = <<>>
        /\ Len(kieCalls) <= 1
        /\ \A i \in 1..Len(kieCalls) :
              kieCalls[i].method = "POST" /\ kieCalls[i].url = KIE_SUNO_UPLOAD_COVER_URL
        /\ ( /\ TypeRulesBroken = {} /\ BusinessRulesBroken = {}
             /\ Has(env, "KIE_API_KEY") /\ env.KIE_API_KEY )
              => /\ Len(kieCalls) = 1
                 /\ IF Given("callBackUrl")
                    THEN kieCalls[1].body.callBackUrl = <<BodyOf.callBackUrl.text>>
                    ELSE kieCalls[1].body.callBackUrl \in OwnCallbackUrls

C26_Witness ==
    /\ IsCover /\ SchemaChecked /\ Answered(200) /\ ~Given("callBackUrl")
    /\ Len(kieCalls) = 1
    /\ kieCalls[1].body.callBackUrl
          = <<"http", "://", "melody.example", "/api/ai-music/cover-audio/callback">>

\* -------------------------------------------------------------------- C27
FileNameBlank == ~Given("kieFileName") \/ BodyOf.kieFileName \in {"", " "}

\* C27: in /wait-upload, when kieFileName is absent, empty or blank, every
\* upload POST is for one record of the done job and carries the file name
\* <jobId>-<n>.mp3, jobId being the launch's and n the record's position
\* counted from 1 (its 0-based index plus one); no two upload POSTs of the
\* request carry the same file name.
C27_DefaultFileNames ==
    (IsWaitUpload /\ req.raw.kind = "json" /\ FileNameBlank) =>
        /\ \A k \in 1..Len(kieCalls) :
              \E r \in 1..Len(DoneRecords) :
                 /\ "audio_url" \in DOMAIN DoneRecords[r]
                 /\ kieCalls[k].fileUrl = DoneRecords[r].audio_url
                 /\ kieCalls[k].fileName = <<launched.json.jobId, "-", (r - 1) + 1, ".mp3">>
        /\ \A k \in 1..Len(kieCalls) : \A j \in 1..Len(kieCalls) :
              k # j => kieCalls[k].fileName # kieCalls[j].fileName

C27_Witness ==
    /\ IsWaitUpload /\ Given("kieFileName") /\ BodyOf.kieFileName = " "
    /\ Len(kieCalls) = 2
    /\ kieCalls[1].fileName = <<JobId, "-", 1, ".mp3">>
    /\ kieCalls[2].fileName = <<JobId, "-", 2, ".mp3">>

\* -------------------------------------------------------------------- C28
\* The address the launch of this invocation gives for its job.
OwnTaskUrl ==
    IF Has(launched.json, "task_url") THEN launched.json.task_url
    ELSE TaskUrl(PAXSENIX_BASE_URL, launched.json.jobId)

\* C28: when two requests of /wait or /wait-upload are handled by the same
\* process with their steps interleaved in any way, each invocation sends
\* one launch at most, every status GET it sends goes to the address its own
\* launch gave, its uploads carry its own job id, and its response is built
\* from its own launch and its own last status answer only: the 200 of
\* /wait is that answer normalized, the 200 of /wait-upload and the 408
\* carry its own jobId and task_url, the 408 its own last status body.
C28_Independent ==
    /\ Len(SelectSeq(paxCalls, LAMBDA c : c.method = "POST")) <= 1
    /\ \A i \in 1..Len(paxCalls) :
          paxCalls[i].method = "GET" => (launched # Null /\ paxCalls[i].url = OwnTaskUrl)
    /\ \A k \in 1..Len(kieCalls) : kieCalls[k].fileName[1] = launched.json.jobId
    /\ (IsWait /\ Answered(200)) => NormalizedFrom(response.body, lastAnswer.json, <<>>)
    /\ (IsWaitUpload /\ Answered(200)) =>
          NormalizedFrom(response.body, lastAnswer.json,
                         [jobId |-> launched.json.jobId, task_url |-> OwnTaskUrl,
                          kieUploads |-> response.body.kieUploads])
    /\ Answered(408) =>
          /\ response.body.jobId = launched.json.jobId
          /\ response.body.task_url = OwnTaskUrl
          /\ response.body.lastResponse = lastAnswer.json

\* Both invocations were launched before either slept, for different jobs,
\* each polled twice, and both have answered.
C28_Witness ==
    /\ peer # Null /\ Answered(200) /\ peer.response # Null /\ peer.response.status = 200
    /\ startedAt = 0 /\ peer.startedAt = 0
    /\ StatusGets = 2 /\ Len(peer.paxCalls) = 3
    /\ launched.json.jobId = "job-2" /\ peer.launched.json.jobId = JobId
    /\ IsWait /\ peer.req.endpoint = "wait-upload"

\* -------------------------------------------------------------------- C29
\* C29: in /wait and /wait-upload, after a status answer that decodes to
\* status "done" with ok false or absent the handler sleeps and polls again
\* (or the budget is used up); as long as no status answer has decoded to
\* done with ok true, no response is 200 and no upload POST is sent, and a
\* response is the 408, unless a status GET failed without an answer (500).
C29_DoneNotOkNonTerminal ==
    ((IsWait \/ IsWaitUpload) /\ doneNotOkAt > 0) =>
        /\ doneOkAt > 0 => doneOkAt > doneNotOkAt
        /\ (StatusGets = doneNotOkAt /\ DoneWithoutSuccess(lastAnswer)) =>
              \/ pc = "sleep" /\ ~Sent
              \/ Answered(408)
        /\ doneOkAt = 0 =>
              /\ ~Answered(200)
              /\ kieCalls = <<>>
              /\ Sent => \/ Answered(408)
                         \/ Answered(500) /\ response.body.message = FetchFailed.message

\* The first status answer was done without a success flag, the handler
\* polled twice more and the request ended 408.
C29_Witness ==
    /\ IsWaitUpload /\ doneNotOkAt = 1 /\ StatusGets = 3 /\ Answered(408)
    /\ "ok" \notin DOMAIN response.body.lastResponse
    /\ response.body.status = "done"

\* -------------------------------------------------------------------- C30
JobCreations == SelectSeq(paxCalls, LAMBDA c : c.method = "POST")

\* C30: a request of /generate, /wait or /wait-upload sends at most one
\* job-creation POST to the generation provider, none before validation has
\* passed, and exactly one once validation has passed with the provider's
\* credential configured; that POST is the first call to the provider and
\* every later call is a status GET, whatever the answers were and however
\* the request ends.
C30_LaunchOnce ==
    req.endpoint \in {"generate", "wait", "wait-upload"} =>
        /\ Len(JobCreations) <= 1
        /\ \A i \in 1..Len(paxCalls) :
              IF i = 1
              THEN /\ paxCalls[i].method = "POST"
                   /\ paxCalls[i].url = <<PAXSENIX_BASE_URL, "/ai-music/suno-music">>
              ELSE paxCalls[i].method = "GET"
        /\ (pc = "recv" \/ (Sent /\ response.status \in {204, 405, 400})) => paxCalls = <<>>
        /\ ( /\ Validated /\ ValidationPassed
             /\ Has(env, "PAXSENIX_API_KEY") /\ env.PAXSENIX_API_KEY )
              => Len(JobCreations) = 1
        /\ IsGenerate => Len(paxCalls) <= 1

\* A /wait request that polled three times, the last answer a 404, and
\* ended 408: one POST, then three GETs.
C30_Witness ==
    /\ IsWait /\ Answered(408) /\ Len(paxCalls) = 4 /\ Len(JobCreations) = 1
    /\ lastAnswer.status = 404

\* -------------------------------------------------------------------- C31
\* C31 as stated: a /wait-upload request whose kieUploadPath is empty or
\* blank is answered 400 with "kieUploadPath is required", with customMode
\* true and with customMode false, and no upload POST carries a blank
\* uploadPath.
C31_BlankPathRejected ==
    /\ (IsWaitUpload /\ SchemaChecked /\ KiePathBlank) =>
          (Answered(400) /\ "kieUploadPath is required" \in Listed)
    /\ IsWaitUpload => \A k \in 1..Len(kieCalls) : Trim(kieCalls[k].uploadPath) # ""

\* -------------------------------------------------------------------- C32
\* C32 as stated: a request the test page has sent to /generate, /wait,
\* /wait-upload or /cover (its form passed the page's checks) is never
\* answered 400.
C32_ClientServerAgree ==
    (pc \notin {"form", "toast"} /\ Sent) => response.status # 400

\* -------------------------------------------------------------------- C33
\* A POST of /generate, /wait, /wait-upload or cover start whose body (JSON,
\* or empty and read as {}) has been through the schema.
BodyChecked ==
    /\ req.endpoint \in {"generate", "wait", "wait-upload", "cover"}
    /\ req.method = "POST" /\ req.raw.kind \in {"json", "empty"} /\ pc # "recv"

\* C33: the method is checked first, then the body, then the credential,
\* then the upstream call is made.  A response of 405 or 400 is sent with no
\* credential read and no call to a provider; a body that violates a rule
\* is answered 400 whether or not the credential is configured (it is not
\* looked at); a request that is not a POST is answered 204 or 405 whatever
\* its body; a provider is called only after its credential has been read
\* and found; and the 500 of a missing credential is sent only for a body
\* that passed validation, before the first call (in /wait-upload the
\* storage credential is read later, once the job is done).
C33_CheckOrder ==
    /\ (Sent /\ response.status \in {204, 405, 400}) =>
          (env = <<>> /\ paxCalls = <<>> /\ kieCalls = <<>>)
    /\ (BodyChecked /\ (TypeRulesBroken \cup BusinessRulesBroken) # {}) => Answered(400)
    /\ (req.endpoint \in {"generate", "wait", "wait-upload", "cover"}
           /\ req.method # "POST" /\ pc # "recv") =>
          (Sent /\ response.status = (IF req.method = "OPTIONS" THEN 204 ELSE 405))
    /\ paxCalls # <<>> => (Has(env, "PAXSENIX_API_KEY") /\ env.PAXSENIX_API_KEY)
    /\ kieCalls # <<>> => (Has(env, "KIE_API_KEY") /\ env.KIE_API_KEY)
    /\ (req.endpoint \in {"generate", "wait", "wait-upload", "cover"}
           /\ Sent /\ "message" \in DOMAIN response.body
           /\ response.body.message \in {"Missing env PAXSENIX_API_KEY", "Missing env KIE_API_KEY"}
           /\ doneOkAt = 0) =>
          /\ BodyChecked /\ (TypeRulesBroken \cup BusinessRulesBroken) = {}
          /\ paxCalls = <<>> /\ kieCalls = <<>>

\* An invalid body answered 400 with no credential read, and (second
\* conjunct apart) nothing else: the case of the claim.
C33_Witness ==
    /\ BodyChecked /\ IsWait /\ Answered(400) /\ env = <<>>
    /\ "prompt is required when customMode=false" \in Listed

\* -------------------------------------------------------------------- C34
\* C34: when every call a /wait or /wait-upload handler awaits returns, the
\* handler eventually sends a response; a response that has been sent is
\* never replaced or followed by another; and its status is one of 200,
\* 204, 400, 405, 408, 500, 502, on every path, those on which a call to a
\* provider is rejected included.
C34_OneResponse ==
    /\ (pc = "recv") ~> Sent
    /\ [][response # Null => response' = response]_vars
    /\ [](Sent => response.status \in {200, 204, 400, 405, 408, 500, 502})

\* A status GET was rejected on the second poll and the request ended 500.
C34_Witness ==
    /\ IsWait /\ Answered(500) /\ StatusGets = 2
    /\ response.body.message = FetchFailed.message

\* -------------------------------------------------------------------- C35
\* Elapsed time since polling began, read at the current turn.
Elapsed == now - startedAt

\* C35: in /wait and /wait-upload the budget bounds polling.  A status GET
\* in flight was started while the elapsed time since polling began was
\* still below the effective timeout; at every moment the number of status
\* GETs is at most ceil(timeoutMs / pollIntervalMs); a 408 is sent only when
\* the elapsed time has reached the timeout; and for every query the
\* parsed budget and interval give at most 900 polls (900000 / 1000).
C35_BudgetBoundsPolling ==
    /\ (IsWait \/ IsWaitUpload) =>
          /\ pc = "poll" => Elapsed < timeoutMs
          /\ paxCalls # <<>> => StatusGets <= CeilDiv(timeoutMs, pollIntervalMs)
          /\ Answered(408) => Elapsed >= timeoutMs
          /\ paxCalls # <<>> => (0 < timeoutMs /\ timeoutMs <= 900000 /\ pollIntervalMs >= 1000)
    /\ pc = "recv" =>
          \A t \in QueryValues, i \in QueryValues :
              LET q == [timeoutMs |-> t, pollIntervalMs |-> i]
              IN  CeilDiv(parseTimeoutMs(q), parsePollIntervalMs(q)) <= 900
    /\ CeilDiv(parseTimeoutMs([timeoutMs |-> QNum(10000000), pollIntervalMs |-> QNum(1000)]),
               parsePollIntervalMs([timeoutMs |-> QNum(10000000),
                                    pollIntervalMs |-> QNum(1000)])) = 900

\* A request with budget 4000 and interval 1000 has made its four polls
\* and ends in 408 exactly when the budget is used up.
C35_Witness ==
    /\ IsWaitUpload /\ Answered(408)
    /\ timeoutMs = 4000 /\ pollIntervalMs = 1000
    /\ StatusGets = 4 /\ Elapsed = 4000

\* -------------------------------------------------------------------- C36
\* C36: in /wait and /wait-upload, once the launch has succeeded the status
\* address has been queried at least once: the effective timeout is strictly
\* positive for every query, so the first loop test passes, and a 408 is
\* never sent unless the call after the launch POST was a GET of the task
\* address.
C36_PollBeforeTimeout ==
    /\ pc = "recv" => \A q \in ClampQueries : parseTimeoutMs(q) > 0
    /\ (IsWait \/ IsWaitUpload) =>
          /\ jobId # "" =>
                /\ timeoutMs > 0
                /\ Len(paxCalls) >= 2
                /\ paxCalls[1].method = "POST"
                /\ paxCalls[2] = [method |-> "GET", url |-> taskUrl]
          /\ Answered(408) => (jobId # "" /\ StatusGets >= 1)

\* The shortest budget of the requests, 2500 with the default interval of
\* 5000: one poll is made, not done, and the request ends in 408.
C36_Witness ==
    /\ IsWait /\ Answered(408)
    /\ timeoutMs = 2500 /\ pollIntervalMs = DEFAULT_POLL_INTERVAL_MS
    /\ StatusGets = 1 /\ last # Null

\* -------------------------------------------------------------------- C37
\* The positions of the done job's records that carry an audio URL.
WithUrl == {i \in 1..Len(DoneRecords) : "audio_url" \in DOMAIN DoneRecords[i]}

\* C37: in /wait-upload a record of the done job without an audio URL gets
\* the entry {ok:false, message:"missing audio_url", recordIndex:i} and no
\* upload call; the storage credential is read only when some record has an
\* audio URL; the records that have one are each uploaded all the same, and
\* their entries are upload results; a done job without records ends in 200
\* with an empty kieUploads and no upload call.
C37_MissingAudioUrl ==
    IsWaitUpload =>
        /\ Answered(200) =>
              \A i \in 1..Len(DoneRecords) :
                 IF i \in WithUrl
                 THEN /\ KieUploads[i].recordIndex = i - 1
                      /\ "message" \notin DOMAIN KieUploads[i]
                      /\ DOMAIN KieUploads[i] \cap {"kie", "uploadError"} # {}
                 ELSE KieUploads[i] =
                          [ok |-> FALSE, message |-> "missing audio_url", recordIndex |-> i - 1]
        /\ "KIE_API_KEY" \in DOMAIN env => (doneOkAt > 0 /\ WithUrl # {})
        /\ kieCalls # <<>> =>
              /\ doneOkAt > 0
              /\ Len(kieCalls) = Cardinality(WithUrl)
              /\ \A i \in WithUrl : \E k \in 1..Len(kieCalls) :
                    kieCalls[k].fileUrl = DoneRecords[i].audio_url
        /\ (doneOkAt > 0 /\ "KIE_API_KEY" \in DOMAIN env /\ env.KIE_API_KEY) =>
              Len(kieCalls) = Cardinality(WithUrl)
        /\ (doneOkAt > 0 /\ WithUrl = {} /\ pc = "done") =>
              /\ Answered(200)
              /\ Len(KieUploads) = Len(DoneRecords)
              /\ kieCalls = <<>> /\ "KIE_API_KEY" \notin DOMAIN env

\* The first record has no audio URL and the second has one: one upload
\* call, the first entry reports the missing URL, the second the upload.
C37_Witness ==
    /\ IsWaitUpload /\ Answered(200)
    /\ Len(DoneRecords) = 2 /\ WithUrl = {2}
    /\ KieUploads[1].message = "missing audio_url" /\ KieUploads[1].recordIndex = 0
    /\ KieUploads[2].ok = TRUE
    /\ Len(kieCalls) = 1

\* -------------------------------------------------------------------- C38
\* The upload path of the parsed body: the one given, or the default.
PathOf == IF Given("kieUploadPath") THEN BodyOf.kieUploadPath ELSE "music/paxsenix"

\* C38: in /wait-upload, when the body carries a non-blank kieFileName,
\* every upload call of the request carries that name (trimmed) as fileName
\* and the body's upload path as uploadPath, whatever the record's position;
\* every record that has an audio URL is uploaded, so the upload calls of a
\* job with several such records are identical in uploadPath and fileName.
C38_SuppliedFileNameShared ==
    (IsWaitUpload /\ req.raw.kind = "json" /\ ~FileNameBlank) =>
        /\ \A k \in 1..Len(kieCalls) :
              /\ kieCalls[k].fileName = <<Trim(BodyOf.kieFileName)>>
              /\ kieCalls[k].uploadPath = PathOf
        /\ kieCalls # <<>> => Len(kieCalls) = Cardinality(WithUrl)
        /\ \A k \in 1..Len(kieCalls) : \A j \in 1..Len(kieCalls) :
              /\ kieCalls[k].fileName = kieCalls[j].fileName
              /\ kieCalls[k].uploadPath = kieCalls[j].uploadPath

\* Two records, two upload calls for two different audio URLs, both under
\* the name song.mp3 in the default path.
C38_Witness ==
    /\ IsWaitUpload /\ Given("kieFileName") /\ BodyOf.kieFileName = " song.mp3 "
    /\ Len(kieCalls) = 2 /\ Len(DoneRecords) = 2
    /\ kieCalls[1].fileUrl # kieCalls[2].fileUrl
    /\ kieCalls[1].fileName = <<"song.mp3">> /\ kieCalls[2].fileName = <<"song.mp3">>
    /\ kieCalls[1].uploadPath = "music/paxsenix" /\ kieCalls[2].uploadPath = "music/paxsenix"

====
